---- MODULE Spec2Model ----
(***************************************************************************)
(* Multi-source document processor: splitting a text at "---:" divider     *)
(* lines, content-addressing the sections, writing them to an output       *)
(* directory and reconstructing the document from the anchor file.         *)
(*                                                                         *)
(* A text is a sequence of symbols.  A symbol is a TLA+ string: one        *)
(* character ("x", "A", " ", "\r", "\n"), the four-character token "---:"  *)
(* taken as one symbol, a digest ("#..." , the truncated sha256 of a       *)
(* normalized text, taken collision-free) or a formatted timestamp         *)
(* ("T1", "T2", ...: one 'HH:MM:SS YYYY/MM/DD' text each).                 *)
(***************************************************************************)
EXTENDS Integers, Sequences, FiniteSets, TLC

(***************************************************************************)
(* Bounds                                                                  *)
(***************************************************************************)
MaxLines == 4
MaxRuns == 2
SmallThreshold == 1

(* options.streamingThreshold || 10 * 1024 * 1024 *)
DefaultThreshold == 10485760

(***************************************************************************)
(* Symbols                                                                 *)
(***************************************************************************)
NL == "\n"
CR == "\r"
SP == " "
DIV == "---:"
Whitespace == {SP, CR, NL}
HexChars == {"A"}
LowerHex == {"a"}
PlainChars == {"x"}

(* options.maxLineLength || 10000 *)
maxLineLength == 10000

(* a run of maxLineLength "x" characters, taken as one symbol *)
LongRun == "x...x"
Timestamps == {"T1", "T2", "T3", "T4"}
Alphabet == Whitespace \cup HexChars \cup LowerHex \cup PlainChars \cup {DIV, LongRun}

(* the lines an input document is made of *)
LineSet == { <<>>, <<"x">>, <<"A">>, <<DIV>>, <<DIV, CR>> }

(* number of UTF-8 bytes / UTF-16 units of a symbol *)
SymLen(c) == IF c = LongRun THEN maxLineLength ELSE IF c = DIV THEN 4 ELSE IF c \in Timestamps THEN 19 ELSE IF c \in Alphabet THEN 1 ELSE 8

RECURSIVE Size(_)
Size(s) == IF s = <<>> THEN 0 ELSE SymLen(Head(s)) + Size(Tail(s))

(***************************************************************************)
(* String primitives of the runtime                                        *)
(***************************************************************************)
(* String.prototype.split("\n") *)
RECURSIVE SplitNL(_)
SplitNL(s) ==
  IF \A i \in 1..Len(s) : s[i] # NL THEN <<s>>
  ELSE LET k == CHOOSE i \in 1..Len(s) : s[i] = NL /\ \A j \in 1..(i-1) : s[j] # NL
       IN <<SubSeq(s, 1, k-1)>> \o SplitNL(SubSeq(s, k+1, Len(s)))

(* Array.prototype.join("\n") *)
RECURSIVE JoinNL(_)
JoinNL(ls) ==
  IF ls = <<>> THEN <<>>
  ELSE IF Len(ls) = 1 THEN ls[1]
  ELSE ls[1] \o <<NL>> \o JoinNL(Tail(ls))

(* Array.prototype.join("\n\n") *)
RECURSIVE JoinBlank(_)
JoinBlank(ls) ==
  IF ls = <<>> THEN <<>>
  ELSE IF Len(ls) = 1 THEN ls[1]
  ELSE ls[1] \o <<NL, NL>> \o JoinBlank(Tail(ls))

(* String.prototype.trim() *)
RECURSIVE TrimStart(_)
TrimStart(s) == IF s # <<>> /\ Head(s) \in Whitespace THEN TrimStart(Tail(s)) ELSE s

RECURSIVE TrimEnd(_)
TrimEnd(s) == IF s # <<>> /\ s[Len(s)] \in Whitespace THEN TrimEnd(SubSeq(s, 1, Len(s)-1)) ELSE s

Trim(s) == TrimEnd(TrimStart(s))

(* the text of a sequence of symbols, as one string *)
RECURSIVE Cat(_)
Cat(s) == IF s = <<>> THEN "" ELSE Head(s) \o Cat(Tail(s))

(***************************************************************************)
(* HashGenerator                                                           *)
(***************************************************************************)
(* .replace(/\r\n/g, "\n") *)
RECURSIVE ReplaceCRLF(_)
ReplaceCRLF(s) ==
  IF s = <<>> THEN <<>>
  ELSE IF Len(s) >= 2 /\ s[1] = CR /\ s[2] = NL THEN <<NL>> \o ReplaceCRLF(SubSeq(s, 3, Len(s)))
  ELSE <<Head(s)>> \o ReplaceCRLF(Tail(s))

(* .replace(/\r/g, "\n") *)
ReplaceCR(s) == [i \in 1..Len(s) |-> IF s[i] = CR THEN NL ELSE s[i]]

(* .replace(/\n+$/, "\n") *)
RECURSIVE StripTrailingNL(_)
StripTrailingNL(s) == IF s # <<>> /\ s[Len(s)] = NL THEN StripTrailingNL(SubSeq(s, 1, Len(s)-1)) ELSE s

CollapseTrailingNL(s) == IF s # <<>> /\ s[Len(s)] = NL THEN StripTrailingNL(s) \o <<NL>> ELSE s

(* normalizeContent without the conversion of a lone CR *)
normalizeContentNoCR(content) == CollapseTrailingNL(ReplaceCRLF(Trim(content)))

normalizeContent(content) == CollapseTrailingNL(ReplaceCR(ReplaceCRLF(Trim(content))))

(* crypto digest, truncated and uppercased: one symbol per normalized text *)
Digest(s) == "#" \o Cat(s)

generateHash(content) == Digest(normalizeContent(content))

(* the value standing for a thrown Error *)
HashError == "Section must have content property"

(* null / undefined originalDividerLine *)
NoLine == <<"null">>

(* undefined index *)
NoIndex == -1

RemoveAt(ls, k) == SubSeq(ls, 1, k-1) \o SubSeq(ls, k+1, Len(ls))

(* generateSectionHash that hashes any content, the empty string too *)
generateSectionHashAny(section) == generateHash(section.content)

generateSectionHash(section) ==
  IF section.content = <<>> THEN HashError
  ELSE IF section.hasDivider /\ section.originalDividerLine # NoLine
       THEN LET lines == SplitNL(section.content)
                hits == { i \in 1..Len(lines) : Trim(lines[i]) = Trim(section.originalDividerLine) }
            IN IF hits = {} THEN generateHash(section.content)
               ELSE LET dividerIndex == CHOOSE i \in hits : \A j \in hits : i <= j
                    IN generateHash(JoinNL(RemoveAt(lines, dividerIndex)))
       ELSE generateHash(section.content)

(***************************************************************************)
(* FileProcessor (in-memory strategy)                                      *)
(***************************************************************************)
(* /^---:\s*$/ tested on a line *)
dividerPattern(line) ==
  /\ line # <<>>
  /\ line[1] = DIV
  /\ \A i \in 2..Len(line) : line[i] \in Whitespace

Section(index, secLines, hasDivider, dividerLine, lineStart, lineEnd) ==
  [ index |-> index, content |-> JoinNL(secLines), hasDivider |-> hasDivider,
    originalDividerLine |-> dividerLine, lineStart |-> lineStart, lineEnd |-> lineEnd ]

(* the loop of splitContent from line i on; cur is currentSection *)
RECURSIVE SplitLoop(_, _, _, _, _, _)
SplitLoop(lines, i, sections, cur, startsWithDivider, dividerLine) ==
  IF i > Len(lines)
  THEN IF Len(cur) > 0
       THEN Append(sections, Section(Len(sections), cur, startsWithDivider, dividerLine,
                                     Len(lines) - Len(cur) + 1, Len(lines)))
       ELSE sections
  ELSE IF dividerPattern(lines[i])
       THEN LET closed == IF Len(cur) > 0
                          THEN Append(sections, Section(Len(sections), cur, startsWithDivider,
                                                        dividerLine, (i-1) - Len(cur) + 1, i-1))
                          ELSE sections
            IN SplitLoop(lines, i+1, closed, <<lines[i]>>, TRUE, lines[i])
       ELSE SplitLoop(lines, i+1, sections, Append(cur, lines[i]), startsWithDivider, dividerLine)

(* splitContent that trims the text before splitting it *)
splitContentTrimmed(content) ==
  IF Len(content) = 0 THEN <<>>
  ELSE SplitLoop(SplitNL(Trim(content)), 1, <<>>, <<>>, FALSE, NoLine)

splitContent(content) ==
  IF Len(content) = 0 THEN <<>>
  ELSE SplitLoop(SplitNL(content), 1, <<>>, <<>>, FALSE, NoLine)

(***************************************************************************)
(* StreamingFileProcessor (streaming strategy)                             *)
(***************************************************************************)
(* options.maxLineLength || 10000 *)
(* the lines readline yields for a file: "\r\n", "\n" and a lone "\r" end  *)
(* a line, and an unterminated last line is yielded only when not empty    *)
RECURSIVE ReadLines(_, _)
ReadLines(s, cur) ==
  IF s = <<>> THEN (IF cur = <<>> THEN <<>> ELSE <<cur>>)
  ELSE IF Len(s) >= 2 /\ s[1] = CR /\ s[2] = NL THEN <<cur>> \o ReadLines(SubSeq(s, 3, Len(s)), <<>>)
  ELSE IF s[1] \in {CR, NL} THEN <<cur>> \o ReadLines(Tail(s), <<>>)
  ELSE ReadLines(Tail(s), Append(cur, s[1]))

(* the value standing for a rejected promise *)
InvalidRange == "Invalid line range"
LineTooLong == "Line exceeds maximum length"

extractSection(file, startLine, endLine) ==
  LET lines == ReadLines(file, <<>>)
      last == IF endLine < Len(lines) THEN endLine ELSE Len(lines)
  IN JoinNL(SubSeq(lines, startLine, last))

streamSectionHash(file, startLine, endLine) ==
  IF startLine < 1 \/ endLine < startLine THEN InvalidRange
  ELSE generateSectionHash([content |-> extractSection(file, startLine, endLine),
                            hasDivider |-> FALSE, originalDividerLine |-> NoLine])

SectionMeta(startLine, endLine, lineCount, hash, hasDivider) ==
  [ startLine |-> startLine, endLine |-> endLine, lineCount |-> lineCount,
    hash |-> hash, hasDivider |-> hasDivider ]

(* metadata.hashIndex after hashIndex.set(section.hash, section) for each   *)
(* section pushed, in order: a later section replaces an earlier one of    *)
(* the same hash                                                           *)
hashIndexOf(sections) ==
  [ h \in { sections[i].hash : i \in 1..Len(sections) } |->
      sections[CHOOSE i \in 1..Len(sections) :
                 /\ sections[i].hash = h
                 /\ \A j \in 1..Len(sections) : sections[j].hash = h => j <= i] ]

Metadata(sections, dividerLines, totalLines, error) ==
  [ sections |-> sections, dividerLines |-> dividerLines, totalLines |-> totalLines,
    error |-> error, hashIndex |-> hashIndexOf(sections) ]

(* the number of lines the for-await loop of extractSection takes from a   *)
(* new stream of the file: it starts at line 1 and breaks at the line      *)
(* after endLine                                                           *)
linesIterated(file, startLine, endLine) ==
  LET total == Len(ReadLines(file, <<>>))
  IN IF endLine < total THEN endLine + 1 ELSE total

(* the loop of analyzeFile with the new section begun at the divider line  *)
(* (startLine: lineNumber) instead of after it                             *)
RECURSIVE AnalyzeLoopFromDivider(_, _, _, _, _, _, _)
AnalyzeLoopFromDivider(file, lines, n, metas, dividers, cur, hasDivider) ==
  IF n > Len(lines)
  THEN IF cur.lineCount > 0
       THEN LET h == streamSectionHash(file, cur.startLine, Len(lines))
            IN IF h \in {HashError, InvalidRange}
               THEN Metadata(<<>>, <<>>, 0, h)
               ELSE Metadata(Append(metas, SectionMeta(cur.startLine, Len(lines), cur.lineCount, h, hasDivider)),
                             dividers, Len(lines), "")
       ELSE Metadata(metas, dividers, Len(lines), "")
  ELSE IF Size(lines[n]) > maxLineLength THEN Metadata(<<>>, <<>>, 0, LineTooLong)
  ELSE IF dividerPattern(lines[n])
       THEN IF cur.lineCount + 1 > 1
            THEN LET h == streamSectionHash(file, cur.startLine, n - 1)
                 IN IF h \in {HashError, InvalidRange}
                    THEN Metadata(<<>>, <<>>, 0, h)
                    ELSE AnalyzeLoopFromDivider(file, lines, n + 1,
                                     Append(metas, SectionMeta(cur.startLine, n - 1, cur.lineCount + 1, h, hasDivider)),
                                     Append(dividers, n), [startLine |-> n, lineCount |-> 1], TRUE)
            ELSE AnalyzeLoopFromDivider(file, lines, n + 1, metas, Append(dividers, n),
                             [startLine |-> n, lineCount |-> 1], TRUE)
       ELSE AnalyzeLoopFromDivider(file, lines, n + 1, metas, dividers,
                        [startLine |-> cur.startLine, lineCount |-> cur.lineCount + 1], hasDivider)

(* the for-await loop of analyzeFile from line n on; the current section   *)
(* began at startLine, has counted lineCount lines and carries hasDivider  *)
RECURSIVE AnalyzeLoop(_, _, _, _, _, _, _)
AnalyzeLoop(file, lines, n, metas, dividers, cur, hasDivider) ==
  IF n > Len(lines)
  THEN IF cur.lineCount > 0
       THEN LET h == streamSectionHash(file, cur.startLine, Len(lines))
            IN IF h \in {HashError, InvalidRange}
               THEN Metadata(<<>>, <<>>, 0, h)
               ELSE Metadata(Append(metas, SectionMeta(cur.startLine, Len(lines), cur.lineCount, h, hasDivider)),
                             dividers, Len(lines), "")
       ELSE Metadata(metas, dividers, Len(lines), "")
  ELSE IF Size(lines[n]) > maxLineLength THEN Metadata(<<>>, <<>>, 0, LineTooLong)
  ELSE IF dividerPattern(lines[n])
       THEN IF cur.lineCount + 1 > 1
            THEN LET h == streamSectionHash(file, cur.startLine, n - 1)
                 IN IF h \in {HashError, InvalidRange}
                    THEN Metadata(<<>>, <<>>, 0, h)
                    ELSE AnalyzeLoop(file, lines, n + 1,
                                     Append(metas, SectionMeta(cur.startLine, n - 1, cur.lineCount + 1, h, hasDivider)),
                                     Append(dividers, n), [startLine |-> n + 1, lineCount |-> 0], TRUE)
            ELSE AnalyzeLoop(file, lines, n + 1, metas, Append(dividers, n),
                             [startLine |-> n + 1, lineCount |-> 0], TRUE)
       ELSE AnalyzeLoop(file, lines, n + 1, metas, dividers,
                        [startLine |-> cur.startLine, lineCount |-> cur.lineCount + 1], hasDivider)

(* analyzeFile reading a last, empty line after the end of the file *)
analyzeFileBlankFinal(file) ==
  AnalyzeLoop(file, Append(ReadLines(file, <<>>), <<>>), 1, <<>>, <<>>,
              [startLine |-> 1, lineCount |-> 0], FALSE)

analyzeFile(file) ==
  AnalyzeLoop(file, ReadLines(file, <<>>), 1, <<>>, <<>>, [startLine |-> 1, lineCount |-> 0], FALSE)

(* StreamingFileProcessor.findSectionByHash: the section metadata, null    *)
(* (found = FALSE) or the error the call is rejected with                  *)
NoMeta == SectionMeta(0, 0, 0, "", FALSE)

findSectionByHash(file, hash) ==
  LET metadata == analyzeFile(file)
  IN IF metadata.error # "" THEN [ error |-> metadata.error, found |-> FALSE, meta |-> NoMeta ]
     ELSE IF hash \in DOMAIN metadata.hashIndex
     THEN [ error |-> "", found |-> TRUE, meta |-> metadata.hashIndex[hash] ]
     ELSE [ error |-> "", found |-> FALSE, meta |-> NoMeta ]

(* the sections streamSplit returns carry neither index nor               *)
(* originalDividerLine: both read as undefined                             *)
streamSplit(file) ==
  LET metadata == analyzeFile(file)
  IN [ error |-> metadata.error,
       sections |-> [ i \in 1..Len(metadata.sections) |->
                      [ index |-> NoIndex,
                        content |-> extractSection(file, metadata.sections[i].startLine,
                                                   metadata.sections[i].endLine),
                        hasDivider |-> metadata.sections[i].hasDivider,
                        originalDividerLine |-> NoLine,
                        lineStart |-> metadata.sections[i].startLine,
                        lineEnd |-> metadata.sections[i].endLine ] ] ]

(***************************************************************************)
(* HybridFileProcessor                                                     *)
(***************************************************************************)
readAndSplit(file, streamingThreshold) ==
  IF Size(file) > streamingThreshold
  THEN streamSplit(file)
  ELSE [ error |-> "", sections |-> splitContent(file) ]

(* thrown by generateHash for a content that is not a string *)
NotAString == "Content must be a string"

(* hashGenerator.generateSectionHash({ content }) as the in-memory branch  *)
(* calls it, content being an element of memoryProcessor.readAndSplit: a   *)
(* section object, not its text.  The object is truthy, the argument has   *)
(* no hasDivider, and generateHash rejects what is not a string.           *)
hashOfSectionObject(section) == NotAString

(* thrown by Buffer.byteLength for a value that is not a string or buffer  *)
InvalidArgType == "The \"string\" argument must be of type string"

(* Buffer.byteLength(content, "utf-8") as the in-memory branch calls it,   *)
(* content being a section object                                          *)
byteLengthOfSectionObject(section) == InvalidArgType

(* HybridFileProcessor.analyzeFile: the entries of analysis.sections, or   *)
(* the error the call is rejected with                                     *)
hybridAnalyzeFile(file, streamingThreshold) ==
  IF Size(file) > streamingThreshold
  THEN LET metadata == analyzeFile(file)
       IN [ error |-> metadata.error,
            sections |-> [ i \in 1..Len(metadata.sections) |->
                           [ hash |-> metadata.sections[i].hash, hasContent |-> FALSE,
                             content |-> <<>> ] ] ]
  ELSE LET sections == splitContent(file)
           sizes == [ i \in 1..Len(sections) |-> byteLengthOfSectionObject(sections[i]) ]
           hashes == [ i \in 1..Len(sections) |-> hashOfSectionObject(sections[i]) ]
       IN IF sections # <<>> /\ sizes[1] = InvalidArgType
          THEN [ error |-> InvalidArgType, sections |-> <<>> ]
          ELSE IF sections # <<>> /\ hashes[1] \in {NotAString, HashError}
          THEN [ error |-> hashes[1], sections |-> <<>> ]
          ELSE [ error |-> "",
                 sections |-> [ i \in 1..Len(sections) |->
                                [ hash |-> hashes[i], hasContent |-> TRUE,
                                  content |-> sections[i].content ] ] ]

(* HybridFileProcessor.findSectionByHash: null (found = FALSE), the        *)
(* section found, or the error the call is rejected with                   *)
hybridFindSectionByHash(file, streamingThreshold, hash) ==
  IF Size(file) > streamingThreshold
  THEN LET metadata == analyzeFile(file)
           hits == { i \in 1..Len(metadata.sections) : metadata.sections[i].hash = hash }
       IN [ error |-> metadata.error, found |-> hits # {}, hash |-> IF hits # {} THEN hash ELSE "",
            hasContent |-> FALSE, content |-> <<>> ]
  ELSE LET sections == splitContent(file)
       IN IF sections = <<>>
          THEN [ error |-> "", found |-> FALSE, hash |-> "", hasContent |-> FALSE, content |-> <<>> ]
          ELSE LET sectionHash == hashOfSectionObject(sections[1])
               IN IF sectionHash \in {NotAString, HashError}
                  THEN [ error |-> sectionHash, found |-> FALSE, hash |-> "",
                         hasContent |-> FALSE, content |-> <<>> ]
                  ELSE LET hits == { i \in 1..Len(sections) : hashOfSectionObject(sections[i]) = hash }
                       IN IF hits = {}
                          THEN [ error |-> "", found |-> FALSE, hash |-> "",
                                 hasContent |-> FALSE, content |-> <<>> ]
                          ELSE [ error |-> "", found |-> TRUE, hash |-> hash, hasContent |-> TRUE,
                                 content |-> sections[CHOOSE i \in hits : \A j \in hits : i <= j].content ]

(***************************************************************************)
(* TimestampUtils                                                          *)
(***************************************************************************)
(* `---: ${hash} ${timestamp}` *)
createDividerLine(hash, timestamp) == <<DIV, SP, hash, SP, timestamp>>

(***************************************************************************)
(* FileWriter                                                              *)
(***************************************************************************)
(* this.fileExtension *)
Ext == ".md"

(* path.basename(options.sourceFilename, path.extname(options.sourceFilename)) *)
SourceBase == "doc"

AnchorName == SourceBase \o Ext

(* the output directory: the files present, by name *)
EmptyDir == [ n \in {} |-> <<>> ]

WriteFile(dir, name, content) ==
  [ n \in DOMAIN dir \cup {name} |-> IF n = name THEN content ELSE dir[n] ]

(* does pat occur in s at position i *)
OccursAt(s, pat, i) == i + Len(pat) - 1 <= Len(s) /\ SubSeq(s, i, i + Len(pat) - 1) = pat

(* String.prototype.replace(pat, rep): the first occurrence only *)
ReplaceFirst(s, pat, rep) ==
  LET hits == { i \in 1..Len(s) : OccursAt(s, pat, i) }
  IN IF hits = {} THEN s
     ELSE LET k == CHOOSE i \in hits : \A j \in hits : i <= j
          IN SubSeq(s, 1, k - 1) \o rep \o SubSeq(s, k + Len(pat), Len(s))

modifyDividerInContent(section, hash, timestamp) ==
  IF ~section.hasDivider \/ section.originalDividerLine = NoLine
  THEN section.content
  ELSE ReplaceFirst(section.content, section.originalDividerLine, createDividerLine(hash, timestamp))

Result(success, reason, hash, filename, hasSection, index, hasDivider) ==
  [ success |-> success, reason |-> reason, hash |-> hash, filename |-> filename,
    hasSection |-> hasSection, index |-> index, hasDivider |-> hasDivider ]

(* writeSection without the check for an existing file *)
writeSectionNoCheck(dir, section, opts) ==
  LET hash == generateSectionHash(section)
      filename == IF section.index = 0 /\ ~section.hasDivider /\ opts.sourceGiven
                  THEN AnchorName
                  ELSE hash \o Ext
  IN IF hash = HashError
     THEN [ dir |-> dir,
            result |-> Result(FALSE, "write_error", "", "", TRUE, section.index, FALSE) ]
     ELSE [ dir |-> WriteFile(dir, filename, modifyDividerInContent(section, hash, opts.timestamp)),
            result |-> Result(TRUE, "", hash, filename, TRUE, section.index, section.hasDivider) ]

(* writeSection reporting an existing file as written, without writing it *)
writeSectionKeepExisting(dir, section, opts) ==
  LET hash == generateSectionHash(section)
      filename == IF section.index = 0 /\ ~section.hasDivider /\ opts.sourceGiven
                  THEN AnchorName
                  ELSE hash \o Ext
  IN IF hash = HashError
     THEN [ dir |-> dir,
            result |-> Result(FALSE, "write_error", "", "", TRUE, section.index, FALSE) ]
     ELSE IF filename \in DOMAIN dir
     THEN [ dir |-> dir,
            result |-> Result(TRUE, "", hash, filename, TRUE, section.index, section.hasDivider) ]
     ELSE [ dir |-> WriteFile(dir, filename, modifyDividerInContent(section, hash, opts.timestamp)),
            result |-> Result(TRUE, "", hash, filename, TRUE, section.index, section.hasDivider) ]

(* writeSection, with the catch of writeSections around it: the directory  *)
(* after the call and the result pushed                                    *)
writeSection(dir, section, opts) ==
  LET hash == generateSectionHash(section)
      filename == IF section.index = 0 /\ ~section.hasDivider /\ opts.sourceGiven
                  THEN AnchorName
                  ELSE hash \o Ext
  IN IF hash = HashError
     THEN [ dir |-> dir,
            result |-> Result(FALSE, "write_error", "", "", TRUE, section.index, FALSE) ]
     ELSE IF ~opts.overwrite /\ filename \in DOMAIN dir
     THEN [ dir |-> dir,
            result |-> Result(FALSE, "file_exists", hash, filename, FALSE, NoIndex, FALSE) ]
     ELSE [ dir |-> WriteFile(dir, filename, modifyDividerInContent(section, hash, opts.timestamp)),
            result |-> Result(TRUE, "", hash, filename, TRUE, section.index, section.hasDivider) ]

(* the first pass of writeSections over sections[i..]; the result has the *)
(* directory after the pass                                                *)
RECURSIVE WriteLoop(_, _, _, _, _)
WriteLoop(dir, sections, i, results, opts) ==
  IF i > Len(sections) THEN [ dir |-> dir, results |-> results ]
  ELSE LET w == writeSection(dir, sections[i], opts)
       IN WriteLoop(w.dir, sections, i + 1, Append(results, w.result), opts)

IsFirstFile(r) == r.success /\ r.hasSection /\ r.index = 0 /\ ~r.hasDivider

IsOtherFile(r) == r.success /\ r.hasSection /\ r.index # 0

(* path.basename(file.filename, this.fileExtension) of a result *)
BaseName(r) == IF r.filename = AnchorName THEN SourceBase ELSE r.hash

referenceLines(otherFiles) == [ i \in 1..Len(otherFiles) |-> <<DIV, SP, BaseName(otherFiles[i])>> ]

(* addReferencesToFirstFile that appends to the anchor content untrimmed *)
addReferencesNoTrim(dir, results) ==
  LET firsts == SelectSeq(results, IsFirstFile)
      otherFiles == SelectSeq(results, IsOtherFile)
  IN IF firsts = <<>> THEN dir
     ELSE IF otherFiles = <<>> THEN dir
     ELSE LET currentContent == dir[firsts[1].filename]
              updatedContent == currentContent \o <<NL, NL>>
                                  \o JoinNL(referenceLines(otherFiles)) \o <<NL>>
          IN WriteFile(dir, firsts[1].filename, updatedContent)

addReferencesToFirstFile(dir, results) ==
  LET firsts == SelectSeq(results, IsFirstFile)
      otherFiles == SelectSeq(results, IsOtherFile)
  IN IF firsts = <<>> THEN dir
     ELSE IF otherFiles = <<>> THEN dir
     ELSE LET currentContent == dir[firsts[1].filename]
              updatedContent == Trim(currentContent) \o <<NL, NL>>
                                  \o JoinNL(referenceLines(otherFiles)) \o <<NL>>
          IN WriteFile(dir, firsts[1].filename, updatedContent)

writeSections(dir, sections, opts) ==
  LET pass1 == WriteLoop(dir, sections, 1, <<>>, opts)
  IN [ dir |-> IF opts.addReferences THEN addReferencesToFirstFile(pass1.dir, pass1.results)
               ELSE pass1.dir,
       written |-> pass1.dir,
       results |-> pass1.results ]

(***************************************************************************)
(* DocumentReconstructor                                                   *)
(***************************************************************************)
(* [A-F0-9] under the i flag; a digest is a run of such characters *)
IsHex(c) == c \in HexChars \/ c \in LowerHex \/ c \notin (Alphabet \cup Timestamps)

(* the upper case of a symbol *)
Upper(c) ==
  IF c \in LowerHex THEN "A"
  ELSE IF c = "_out" THEN "_OUT"
  ELSE IF c = "doc" THEN "DOC"
  ELSE IF c = ".md" THEN ".MD"
  ELSE c

(* String.prototype.toUpperCase *)
toUpperCase(s) == [ i \in 1..Len(s) |-> Upper(s[i]) ]

IsWs(c) == c \in Whitespace

(* the number of leading symbols of s that are whitespace: \s* *)
RunWs(s) ==
  IF \A i \in 1..Len(s) : IsWs(s[i]) THEN Len(s)
  ELSE (CHOOSE i \in 1..Len(s) : ~IsWs(s[i]) /\ \A j \in 1..(i - 1) : IsWs(s[j])) - 1

(* the number of leading symbols of s that are hex digits: [A-F0-9]* *)
RunHex(s) ==
  IF \A i \in 1..Len(s) : IsHex(s[i]) THEN Len(s)
  ELSE (CHOOSE i \in 1..Len(s) : ~IsHex(s[i]) /\ \A j \in 1..(i - 1) : IsHex(s[j])) - 1

Drop(s, n) == SubSeq(s, n + 1, Len(s))

(* /^---:\s+([A-F0-9]+)(?:\s+\d{2}:\d{2}:\d{2}\s+\d{4}\/\d{2}\/\d{2})?$/i  *)
(* on a line: matched, the captured group, and whether a timestamp follows *)
referenceMatch(line) ==
  IF line = <<>> \/ Head(line) # DIV THEN [ ok |-> FALSE, hash |-> <<>>, stamped |-> FALSE ]
  ELSE LET r1 == Tail(line)
           w1 == RunWs(r1)
           r2 == Drop(r1, w1)
           h  == RunHex(r2)
           r3 == Drop(r2, h)
           w2 == RunWs(r3)
           r4 == Drop(r3, w2)
       IN IF w1 = 0 \/ h = 0 THEN [ ok |-> FALSE, hash |-> <<>>, stamped |-> FALSE ]
          ELSE IF r3 = <<>> THEN [ ok |-> TRUE, hash |-> SubSeq(r2, 1, h), stamped |-> FALSE ]
          ELSE IF w2 > 0 /\ Len(r4) = 1 /\ r4[1] \in Timestamps
               THEN [ ok |-> TRUE, hash |-> SubSeq(r2, 1, h), stamped |-> TRUE ]
          ELSE [ ok |-> FALSE, hash |-> <<>>, stamped |-> FALSE ]

extractReferences(content) ==
  LET lines == SplitNL(content)
      refIdx == { i \in 1..Len(lines) : referenceMatch(lines[i]).ok }
  IN IF refIdx = {}
     THEN [ baseContent |-> Trim(content), references |-> <<>> ]
     ELSE LET referenceStartIndex == CHOOSE i \in refIdx : \A j \in refIdx : i <= j
              blankBefore(k) == \A j \in k..(referenceStartIndex - 1) : Trim(lines[j]) = <<>>
              actualReferenceStart == CHOOSE k \in 1..referenceStartIndex :
                                        /\ blankBefore(k)
                                        /\ \A m \in 1..(k - 1) : ~blankBefore(m)
              matching == SelectSeq([ i \in 1..Len(lines) |-> [ n |-> i, m |-> referenceMatch(lines[i]) ] ],
                                    LAMBDA e : e.m.ok)
          IN [ baseContent |-> Trim(JoinNL(SubSeq(lines, 1, actualReferenceStart - 1))),
               references |-> [ i \in 1..Len(matching) |->
                                [ hash |-> Cat(toUpperCase(matching[i].m.hash)),
                                  originalLine |-> lines[matching[i].n],
                                  lineNumber |-> matching[i].n ] ] ]

(* cleanReferencedContent rewriting every enhanced divider line *)
cleanReferencedContentEveryLine(content) ==
  LET lines == SplitNL(content)
  IN JoinNL([ i \in 1..Len(lines) |->
                IF referenceMatch(lines[i]).stamped THEN <<DIV>> ELSE lines[i] ])

(* /^---:\s+[A-F0-9]+\s+\d{2}:\d{2}:\d{2}\s+\d{4}\/\d{2}\/\d{2}$/i *)
cleanReferencedContent(content) ==
  LET lines == SplitNL(content)
  IN IF referenceMatch(lines[1]).stamped
     THEN JoinNL(<<(<<DIV>>)>> \o Tail(lines))
     ELSE JoinNL(lines)

(* resolvedSections with "break" in place of "continue" at a missing file *)
resolvedSectionsStopAtMissing(dir, references) ==
  LET missing == { i \in 1..Len(references) : (references[i].hash \o Ext) \notin DOMAIN dir }
      upto == IF missing = {} THEN Len(references)
              ELSE (CHOOSE i \in missing : \A j \in missing : i <= j) - 1
  IN [ i \in 1..upto |-> cleanReferencedContent(dir[references[i].hash \o Ext]) ]

(* the cleaned contents of the referenced files that exist, in order *)
resolvedSections(dir, references) ==
  LET found == SelectSeq(references, LAMBDA ref : (ref.hash \o Ext) \in DOMAIN dir)
  IN [ i \in 1..Len(found) |-> cleanReferencedContent(dir[found[i].hash \o Ext]) ]

combineReferencedFiles(dir, baseContent, references) ==
  JoinBlank(<<baseContent>> \o resolvedSections(dir, references))

MainFileNotFound == "Main file not found"

reconstructDocument(dir, mainFile) ==
  IF mainFile \notin DOMAIN dir
  THEN [ error |-> MainFileNotFound, baseContent |-> <<>>, resolved |-> <<>>, output |-> <<>> ]
  ELSE LET ex == extractReferences(dir[mainFile])
       IN IF ex.references = <<>>
          THEN [ error |-> "", baseContent |-> ex.baseContent, resolved |-> <<>>,
                 output |-> ex.baseContent ]
          ELSE [ error |-> "", baseContent |-> ex.baseContent,
                 resolved |-> resolvedSections(dir, ex.references),
                 output |-> combineReferencedFiles(dir, ex.baseContent, ex.references) ]

(* options.inputDir || "_out" *)
DefaultInputDir == "_out"

(* validateReferences: the references whose file exists in the directory,  *)
(* and the others                                                          *)
validateReferences(dir, references) ==
  [ found |-> SelectSeq(references, LAMBDA ref : (ref.hash \o Ext) \in DOMAIN dir),
    missing |-> SelectSeq(references, LAMBDA ref : (ref.hash \o Ext) \notin DOMAIN dir) ]

(* the files of a directory of the file system; none when it is not there *)
FilesOf(dirs, name) == IF name \in DOMAIN dirs THEN dirs[name] ELSE EmptyDir

(* DocumentReconstructor.analyzeFile on the main file of directory mainDir: *)
(* the search directory is path.dirname(filePath)                          *)
reconstructorAnalyzeFile(dirs, mainDir, mainFile) ==
  LET ex == extractReferences(FilesOf(dirs, mainDir)[mainFile])
      searchDir == mainDir
  IN validateReferences(FilesOf(dirs, searchDir), ex.references)

(* DocumentReconstructor.reconstructDocument on the main file of directory *)
(* mainDir, for a reconstructor configured with inputDir: the search       *)
(* directory is inputDir unless inputDir is "_out"                         *)
reconstructDocumentIn(dirs, inputDir, mainDir, mainFile) ==
  LET ex == extractReferences(FilesOf(dirs, mainDir)[mainFile])
      searchDir == IF inputDir # DefaultInputDir THEN inputDir ELSE mainDir
  IN IF ex.references = <<>>
     THEN [ error |-> "", baseContent |-> ex.baseContent, resolved |-> <<>>,
            output |-> ex.baseContent ]
     ELSE [ error |-> "", baseContent |-> ex.baseContent,
            resolved |-> resolvedSections(FilesOf(dirs, searchDir), ex.references),
            output |-> combineReferencedFiles(FilesOf(dirs, searchDir), ex.baseContent,
                                              ex.references) ]

(***************************************************************************)
(* The file server.  A path is a sequence of symbols: the separator "/",   *)
(* the parent segment "..", and pieces of names ("app", "_out", "2",       *)
(* "doc", "A", "a", ".md"); a name is the concatenation of its pieces.     *)
(***************************************************************************)
SEP == "/"
PARENT == ".."

(* path.resolve(OUTPUT_DIR): <dirname>/../_out *)
OUTPUT_DIR == <<SEP, "app", SEP, "_out">>

(* the segments of a path, the empty ones dropped *)
RECURSIVE PathSegments(_, _)
PathSegments(p, cur) ==
  IF p = <<>> THEN (IF cur = <<>> THEN <<>> ELSE <<cur>>)
  ELSE IF Head(p) = SEP
       THEN (IF cur = <<>> THEN <<>> ELSE <<cur>>) \o PathSegments(Tail(p), <<>>)
       ELSE PathSegments(Tail(p), Append(cur, Head(p)))

(* ".." removes the segment before it; at the root it is dropped *)
RECURSIVE NormalizeSegments(_, _)
NormalizeSegments(segs, done) ==
  IF segs = <<>> THEN done
  ELSE IF Head(segs) = <<PARENT>>
       THEN NormalizeSegments(Tail(segs), IF done = <<>> THEN <<>> ELSE SubSeq(done, 1, Len(done) - 1))
       ELSE NormalizeSegments(Tail(segs), Append(done, Head(segs)))

RECURSIVE RenderPath(_)
RenderPath(segs) ==
  IF segs = <<>> THEN <<>> ELSE <<SEP>> \o Head(segs) \o RenderPath(Tail(segs))

(* path.join(base, name) for an absolute base; path.resolve of the result  *)
(* is the result itself                                                    *)
pathJoin(base, name) ==
  LET segs == NormalizeSegments(PathSegments(base \o <<SEP>> \o name, <<>>), <<>>)
  IN IF segs = <<>> THEN <<SEP>> ELSE RenderPath(segs)

(* String.prototype.startsWith *)
startsWith(str, prefix) ==
  Len(prefix) <= Len(str) /\ SubSeq(str, 1, Len(prefix)) = prefix

(* the files on the disk of the server, each with the hash getOutputFiles  *)
(* gives it when it lists the output directory (base name of a hash file,  *)
(* else the hash of the first reference line of the content)               *)
Disk == [ path \in { OUTPUT_DIR \o <<SEP, "doc", ".md">>,
                     OUTPUT_DIR \o <<SEP, "A", ".md">>,
                     <<SEP, "app", SEP, "_out", "2">>,
                     <<SEP, "app", SEP, "A", ".md">> }
          |-> IF path = OUTPUT_DIR \o <<SEP, "doc", ".md">> THEN <<"A", "A">>
              ELSE IF path = OUTPUT_DIR \o <<SEP, "A", ".md">> THEN <<"A">>
              ELSE <<>> ]

Response(status, served) == [ status |-> status, served |-> served ]

(* GET /api/files/:filename *)
getFileByName(filename) ==
  LET filePath == pathJoin(OUTPUT_DIR, filename)
      resolvedPath == filePath
      resolvedOutputDir == OUTPUT_DIR
  IN IF ~startsWith(resolvedPath, resolvedOutputDir) THEN Response(403, <<>>)
     ELSE IF filePath \in DOMAIN Disk THEN Response(200, filePath)
     ELSE Response(404, <<>>)

(* the files getOutputFiles lists: the .md files directly in OUTPUT_DIR *)
OutputFiles ==
  { path \in DOMAIN Disk :
      /\ Len(path) > Len(OUTPUT_DIR) + 1
      /\ SubSeq(path, 1, Len(OUTPUT_DIR) + 1) = OUTPUT_DIR \o <<SEP>>
      /\ \A i \in (Len(OUTPUT_DIR) + 2)..Len(path) : path[i] # SEP
      /\ path[Len(path)] = ".md" }

(* GET /api/hash/:hash *)
getFileByHash(param) ==
  LET hash == toUpperCase(param)
      hashFilePath == pathJoin(OUTPUT_DIR, hash \o <<".md">>)
      withHash == { path \in OutputFiles : Disk[path] = hash }
  IN IF hashFilePath \in DOMAIN Disk THEN Response(200, hashFilePath)
     ELSE IF withHash # {} THEN Response(200, CHOOSE path \in withHash : TRUE)
     ELSE Response(404, <<>>)

(***************************************************************************)
(* The command surface: one input file is split, its sections are written  *)
(* to the output directory by up to MaxRuns successive runs, and the       *)
(* document is reconstructed from the anchor.                              *)
(*                                                                         *)
(* A second, independent experiment applies the hash functions to texts    *)
(* and sections drawn from bounded sets (hText, hpc, hOut).                *)
(***************************************************************************)
VARIABLES file, streamingThreshold, addReferences, sourceGiven, pc, sections, dir, log, recon,
          hText, hpc, hOut,
          rText, rDir, rpc, rOut,
          aFile, aThreshold, apc, aOut,
          sRoute, sParam, spc, sOut,
          cSecs, cSource, cDir, cRun, cSeq,
          pInput, pClean, pDir, ppc, pOut,
          qText, qConfig, qDirs, qpc, qOut

pipelineVars == <<file, streamingThreshold, addReferences, sourceGiven, pc, sections, dir, log, recon>>

hashVars == <<hText, hpc, hOut>>

reconVars == <<rText, rDir, rpc, rOut>>

analyzeVars == <<aFile, aThreshold, apc, aOut>>

serverVars == <<sRoute, sParam, spc, sOut>>

concVars == <<cSecs, cSource, cDir, cRun, cSeq>>

procVars == <<pInput, pClean, pDir, ppc, pOut>>

searchVars == <<qText, qConfig, qDirs, qpc, qOut>>

vars == <<file, streamingThreshold, addReferences, sourceGiven, pc, sections, dir, log, recon,
          hText, hpc, hOut, rText, rDir, rpc, rOut,
          aFile, aThreshold, apc, aOut, sRoute, sParam, spc, sOut,
          cSecs, cSource, cDir, cRun, cSeq, pInput, pClean, pDir, ppc, pOut,
          qText, qConfig, qDirs, qpc, qOut>>

(* every text of 1..MaxLines lines of LineSet *)
RECURSIVE LineSeqs(_)
LineSeqs(n) ==
  IF n = 0 THEN { <<>> }
  ELSE LET shorter == LineSeqs(n - 1)
       IN shorter \cup { Append(ls, l) : ls \in { x \in shorter : Len(x) = n - 1 }, l \in LineSet }

Documents == { JoinNL(ls) : ls \in LineSeqs(MaxLines) }

(* an output directory left by an earlier run on an earlier version of     *)
(* the document: its anchor file is still there                            *)
StaleDir == [ n \in {AnchorName} |-> <<"x", NL, "x">> ]

InitialDirs == { EmptyDir, StaleDir }

(* new Date(), formatted, at the n-th run *)
Clock(n) == <<"T1", "T2", "T3", "T4">>[n]

NoRecon == [ error |-> "none", baseContent |-> <<>>, resolved |-> <<>>, output |-> <<>> ]

NoHashes == [ kind |-> "none", x |-> <<>>, y |-> <<>>, a |-> "", b |-> "", c |-> "" ]

PipelineIdle ==
  /\ file = <<>>
  /\ streamingThreshold = DefaultThreshold
  /\ addReferences = TRUE
  /\ sourceGiven = TRUE
  /\ pc = "idle"
  /\ sections = <<>>
  /\ dir = EmptyDir
  /\ log = <<>>
  /\ recon = NoRecon

HashIdle ==
  /\ hText = <<>>
  /\ hpc = "idle"
  /\ hOut = NoHashes

NoOutput == [ kind |-> "none", error |-> "", baseContent |-> <<>>, references |-> <<>>,
              resolved |-> <<>>, output |-> <<>> ]

ReconIdle ==
  /\ rText = <<>>
  /\ rDir = EmptyDir
  /\ rpc = "idle"
  /\ rOut = NoOutput

NoAnalysis == [ kind |-> "none", error |-> "", sections |-> <<>>, dividerLines |-> <<>>,
                totalLines |-> 0, found |-> <<>>, hashIndex |-> <<>>, reads |-> <<>>,
                lookups |-> <<>> ]

AnalyzeIdle ==
  /\ aFile = <<>>
  /\ aThreshold = DefaultThreshold
  /\ apc = "idle"
  /\ aOut = NoAnalysis

NoResponse == Response(0, <<>>)

ServerIdle ==
  /\ sRoute = "none"
  /\ sParam = <<>>
  /\ spc = "idle"
  /\ sOut = NoResponse

(* a writeSections call not yet made *)
NoRun == [ pc |-> "idle", overwrite |-> FALSE, timestamp |-> "", i |-> 0, results |-> <<>>,
           read |-> <<>>, wrote |-> <<>>, otherAt |-> "" ]

ConcIdle ==
  /\ cSecs = <<>>
  /\ cSource = TRUE
  /\ cDir = EmptyDir
  /\ cRun = [ r \in {1, 2} |-> NoRun ]
  /\ cSeq = TRUE

NoOutcome == [ error |-> "", cleaned |-> FALSE, results |-> <<>>, before |-> EmptyDir ]

ProcIdle ==
  /\ pInput = <<>>
  /\ pClean = FALSE
  /\ pDir = EmptyDir
  /\ ppc = "idle"
  /\ pOut = NoOutcome

NoSearch == [ kind |-> "none", found |-> <<>>, missing |-> <<>>, resolved |-> <<>>,
              output |-> <<>>, error |-> "" ]

SearchIdle ==
  /\ qText = <<>>
  /\ qConfig = [ inputDir |-> "", mainDir |-> "" ]
  /\ qDirs = <<>>
  /\ qpc = "idle"
  /\ qOut = NoSearch

Init ==
  /\ file \in Documents
  /\ streamingThreshold \in {SmallThreshold, DefaultThreshold}
  /\ addReferences \in BOOLEAN
  /\ sourceGiven \in BOOLEAN
  /\ pc = "start"
  /\ sections = <<>>
  /\ dir \in InitialDirs
  /\ log = <<>>
  /\ recon = NoRecon
  /\ HashIdle
  /\ ReconIdle
  /\ AnalyzeIdle
  /\ ServerIdle
  /\ ConcIdle
  /\ ProcIdle
  /\ SearchIdle

(* MultiSourceProcessor.process up to the split *)
ReadAndSplit ==
  /\ pc = "start"
  /\ LET r == readAndSplit(file, streamingThreshold)
     IN /\ sections' = r.sections
        /\ pc' = IF r.error # "" THEN "failed"
                 ELSE IF Len(r.sections) = 0 THEN "empty"
                 ELSE "split"
  /\ UNCHANGED <<file, streamingThreshold, addReferences, sourceGiven, dir, log, recon>>
  /\ UNCHANGED <<hashVars, reconVars, analyzeVars, serverVars, concVars, procVars, searchVars>>

(* one run of FileWriter.writeSections over the sections of the file; the *)
(* log keeps, per run, the options, the directory before the run, after    *)
(* the first pass (written) and after the run, and the results             *)
WriteSections(overwrite) ==
  /\ pc \in {"split", "written"}
  /\ Len(log) < MaxRuns
  /\ LET opts == [ overwrite |-> overwrite, addReferences |-> addReferences,
                   sourceGiven |-> sourceGiven, timestamp |-> Clock(Len(log) + 1) ]
         w == writeSections(dir, sections, opts)
     IN /\ dir' = w.dir
        /\ log' = Append(log, [ opts |-> opts, before |-> dir, results |-> w.results,
                                written |-> w.written, after |-> w.dir ])
  /\ pc' = "written"
  /\ UNCHANGED <<file, streamingThreshold, addReferences, sourceGiven, sections, recon>>
  /\ UNCHANGED <<hashVars, reconVars, analyzeVars, serverVars, concVars, procVars, searchVars>>

(* DocumentReconstructor.reconstructDocument on the anchor *)
Reconstruct ==
  /\ pc = "written"
  /\ recon' = reconstructDocument(dir, AnchorName)
  /\ pc' = "reconstructed"
  /\ UNCHANGED <<file, streamingThreshold, addReferences, sourceGiven, sections, dir, log>>
  /\ UNCHANGED <<hashVars, reconVars, analyzeVars, serverVars, concVars, procVars, searchVars>>

Next ==
  \/ ReadAndSplit
  \/ \E overwrite \in BOOLEAN : WriteSections(overwrite)
  \/ Reconstruct

Spec == Init /\ [][Next]_vars

(***************************************************************************)
(* The same command surface on longer documents over fewer kinds of line,  *)
(* written once or more into an empty directory with the source name and   *)
(* references enabled                                                      *)
(***************************************************************************)
MaxLongLines == 5

LongLineSet == { <<>>, <<"x">>, <<"A">>, <<DIV>> }

LongDocuments == { JoinNL(ls) : ls \in [ 1..MaxLongLines -> LongLineSet ] }

InitLong ==
  /\ file \in LongDocuments
  /\ streamingThreshold = DefaultThreshold
  /\ addReferences = TRUE
  /\ sourceGiven = TRUE
  /\ pc = "start"
  /\ sections = <<>>
  /\ dir = EmptyDir
  /\ log = <<>>
  /\ recon = NoRecon
  /\ HashIdle
  /\ ReconIdle
  /\ AnalyzeIdle
  /\ ServerIdle
  /\ ConcIdle
  /\ ProcIdle
  /\ SearchIdle

SpecLong == InitLong /\ [][Next]_vars

(***************************************************************************)
(* The hash functions applied to bounded inputs                            *)
(***************************************************************************)
MaxTextLen == 3

RECURSIVE Texts(_, _)
Texts(chars, n) ==
  IF n = 0 THEN { <<>> }
  ELSE LET shorter == Texts(chars, n - 1)
       IN shorter \cup { Append(t, c) : t \in { x \in shorter : Len(x) = n - 1 }, c \in chars }

(* texts written with LF line endings *)
HashTexts == Texts({"x", "A", SP, NL}, MaxTextLen)

(* the same text written with CRLF, and with CR, line endings *)
RECURSIVE ToCRLF(_)
ToCRLF(t) ==
  IF t = <<>> THEN <<>>
  ELSE IF Head(t) = NL THEN <<CR, NL>> \o ToCRLF(Tail(t))
  ELSE <<Head(t)>> \o ToCRLF(Tail(t))

ToCR(t) == [ i \in 1..Len(t) |-> IF t[i] = NL THEN CR ELSE t[i] ]

Leads == { <<>>, <<SP>>, <<NL, SP>> }

Trails == { <<>>, <<NL>>, <<SP, NL, NL>> }

DividerLines == { l \in LineSet : dividerPattern(l) } \cup { <<DIV, SP>> }

InitHash ==
  /\ PipelineIdle
  /\ ReconIdle
  /\ AnalyzeIdle
  /\ ServerIdle
  /\ ConcIdle
  /\ ProcIdle
  /\ SearchIdle
  /\ hText \in HashTexts
  /\ hpc = "start"
  /\ hOut = NoHashes

(* generateHash on the LF, CRLF and CR writings of hText, the last two    *)
(* with whitespace added around                                            *)
HashVariants(lead, trail) ==
  /\ hpc = "start"
  /\ hOut' = [ kind |-> "variants",
               x |-> ToCRLF(lead \o hText \o trail),
               y |-> ToCR(lead \o hText \o trail),
               a |-> generateHash(hText),
               b |-> generateHash(ToCRLF(lead \o hText \o trail)),
               c |-> generateHash(ToCR(lead \o hText \o trail)) ]
  /\ hpc' = "hashed"
  /\ UNCHANGED hText
  /\ UNCHANGED <<pipelineVars, reconVars, analyzeVars, serverVars, concVars, procVars, searchVars>>

SectionWith(dividerLine, body, index) ==
  [ index |-> index, content |-> dividerLine \o <<NL>> \o body, hasDivider |-> TRUE,
    originalDividerLine |-> dividerLine, lineStart |-> index + 1, lineEnd |-> index + 2 ]

SectionWithout(body) ==
  [ index |-> 0, content |-> body, hasDivider |-> FALSE,
    originalDividerLine |-> NoLine, lineStart |-> 1, lineEnd |-> 1 ]

(* generateSectionHash on hText as a section of its own and as the body   *)
(* of a section that begins with a divider line                            *)
HashSections(dividerLine, index) ==
  /\ hpc = "start"
  /\ hOut' = [ kind |-> "sections",
               x |-> SectionWith(dividerLine, hText, index).content,
               y |-> <<>>,
               a |-> generateSectionHash(SectionWith(dividerLine, hText, index)),
               b |-> generateSectionHash(SectionWithout(hText)),
               c |-> "" ]
  /\ hpc' = "hashed"
  /\ UNCHANGED hText
  /\ UNCHANGED <<pipelineVars, reconVars, analyzeVars, serverVars, concVars, procVars, searchVars>>

NextHash ==
  \/ \E lead \in Leads, trail \in Trails : HashVariants(lead, trail)
  \/ \E dividerLine \in DividerLines, index \in 1..2 : HashSections(dividerLine, index)

SpecHash == InitHash /\ [][NextHash]_vars

(***************************************************************************)
(* The reconstructor applied to bounded anchor texts and directories       *)
(***************************************************************************)
MaxAnchorLines == 4

(* the lines an anchor text is made of: blank, content, a reference in     *)
(* upper case, one in lower case with a second digit, a reference with a   *)
(* timestamp                                                               *)
AnchorLineSet == { <<>>, <<"x">>, <<DIV, SP, "A">>, <<DIV, SP, "a", "A">>,
                   <<DIV, SP, "A", SP, "T1">> }

RECURSIVE AnchorLineSeqs(_)
AnchorLineSeqs(n) ==
  IF n = 0 THEN { <<>> }
  ELSE LET shorter == AnchorLineSeqs(n - 1)
       IN shorter \cup { Append(ls, l) : ls \in { x \in shorter : Len(x) = n - 1 }, l \in AnchorLineSet }

AnchorTexts == { JoinNL(ls) : ls \in AnchorLineSeqs(MaxAnchorLines) }

(* the names the references of an anchor text resolve to *)
RefNames == { "A" \o Ext, "AA" \o Ext }

(* what a referenced file may hold: a section under its canonical divider, *)
(* plain content, and content whose second line is a canonical divider     *)
RefFileTexts == { <<DIV, SP, "A", SP, "T1", NL, "x">>,
                  <<"x">>,
                  <<DIV, SP, "A", NL, DIV, SP, "A", SP, "T2">> }

RefDirs == UNION { [ names -> RefFileTexts ] : names \in SUBSET RefNames }

InitRecon ==
  /\ PipelineIdle
  /\ HashIdle
  /\ AnalyzeIdle
  /\ ServerIdle
  /\ ConcIdle
  /\ ProcIdle
  /\ SearchIdle
  /\ rText \in AnchorTexts
  /\ rDir \in RefDirs
  /\ rpc = "start"
  /\ rOut = NoOutput

(* DocumentReconstructor.extractReferences on the anchor text *)
ExtractReferences ==
  /\ rpc = "start"
  /\ LET ex == extractReferences(rText)
     IN rOut' = [ NoOutput EXCEPT !.kind = "extract", !.baseContent = ex.baseContent,
                                  !.references = ex.references ]
  /\ rpc' = "done"
  /\ UNCHANGED <<rText, rDir>>
  /\ UNCHANGED <<pipelineVars, hashVars, analyzeVars, serverVars, concVars, procVars, searchVars>>

(* DocumentReconstructor.cleanReferencedContent on the text *)
CleanReferencedContent ==
  /\ rpc = "start"
  /\ rOut' = [ NoOutput EXCEPT !.kind = "clean", !.output = cleanReferencedContent(rText) ]
  /\ rpc' = "done"
  /\ UNCHANGED <<rText, rDir>>
  /\ UNCHANGED <<pipelineVars, hashVars, analyzeVars, serverVars, concVars, procVars, searchVars>>

(* DocumentReconstructor.reconstructDocument with the anchor text as the   *)
(* main file of the directory                                              *)
ReconstructDocument ==
  /\ rpc = "start"
  /\ LET r == reconstructDocument([ n \in DOMAIN rDir \cup {AnchorName} |->
                                     IF n = AnchorName THEN rText ELSE rDir[n] ], AnchorName)
     IN rOut' = [ NoOutput EXCEPT !.kind = "reconstruct", !.error = r.error,
                                  !.baseContent = r.baseContent,
                                  !.references = extractReferences(rText).references,
                                  !.resolved = r.resolved, !.output = r.output ]
  /\ rpc' = "done"
  /\ UNCHANGED <<rText, rDir>>
  /\ UNCHANGED <<pipelineVars, hashVars, analyzeVars, serverVars, concVars, procVars, searchVars>>

NextRecon ==
  \/ ExtractReferences
  \/ CleanReferencedContent
  \/ ReconstructDocument

SpecRecon == InitRecon /\ [][NextRecon]_vars

(***************************************************************************)
(* The analysis functions applied to bounded files, some with a line of    *)
(* maxLineLength characters or one more                                    *)
(***************************************************************************)
MaxAnalyzeLines == 3

AnalyzeLineSet == { <<>>, <<"x">>, <<"A">>, <<DIV>>, <<LongRun>>, <<LongRun, "x">> }

RECURSIVE AnalyzeLineSeqs(_)
AnalyzeLineSeqs(n) ==
  IF n = 0 THEN { <<>> }
  ELSE LET shorter == AnalyzeLineSeqs(n - 1)
       IN shorter \cup { Append(ls, l) : ls \in { x \in shorter : Len(x) = n - 1 }, l \in AnalyzeLineSet }

AnalyzeFiles == { JoinNL(ls) : ls \in AnalyzeLineSeqs(MaxAnalyzeLines) }

InitAnalyze ==
  /\ PipelineIdle
  /\ HashIdle
  /\ ReconIdle
  /\ ServerIdle
  /\ ConcIdle
  /\ ProcIdle
  /\ SearchIdle
  /\ aFile \in AnalyzeFiles
  /\ aThreshold \in {SmallThreshold, DefaultThreshold}
  /\ apc = "start"
  /\ aOut = NoAnalysis

(* FileProcessor.splitContent on the text and HybridFileProcessor          *)
(* readAndSplit on the file                                                *)
SplitFile ==
  /\ apc = "start"
  /\ LET r == readAndSplit(aFile, aThreshold)
     IN aOut' = [ NoAnalysis EXCEPT !.kind = "split", !.error = r.error,
                                    !.sections = r.sections, !.found = splitContent(aFile) ]
  /\ apc' = "done"
  /\ UNCHANGED <<aFile, aThreshold>>
  /\ UNCHANGED <<pipelineVars, hashVars, reconVars, serverVars, concVars, procVars, searchVars>>

(* a hash no section has *)
AbsentHash == "#none"

(* StreamingFileProcessor.analyzeFile on the file, with the lines each     *)
(* generateSectionHash re-read took from the file, then findSectionByHash  *)
(* with the hash of each section and with a hash no section has            *)
AnalyzeFile ==
  /\ apc = "start"
  /\ LET m == analyzeFile(aFile)
     IN aOut' = [ NoAnalysis EXCEPT !.kind = "analyze", !.error = m.error,
                                    !.sections = m.sections, !.dividerLines = m.dividerLines,
                                    !.totalLines = m.totalLines,
                                    !.hashIndex = m.hashIndex,
                                    !.reads = [ i \in 1..Len(m.sections) |->
                                                linesIterated(aFile, m.sections[i].startLine,
                                                              m.sections[i].endLine) ],
                                    !.lookups = [ h \in DOMAIN m.hashIndex \cup {AbsentHash} |->
                                                  findSectionByHash(aFile, h) ] ]
  /\ apc' = "done"
  /\ UNCHANGED <<aFile, aThreshold>>
  /\ UNCHANGED <<pipelineVars, hashVars, reconVars, serverVars, concVars, procVars, searchVars>>

(* HybridFileProcessor.analyzeFile on the file, then findSectionByHash     *)
(* with the hash of each entry of the analysis                             *)
AnalyzeAndFind ==
  /\ apc = "start"
  /\ LET analysis == hybridAnalyzeFile(aFile, aThreshold)
     IN aOut' = [ NoAnalysis EXCEPT !.kind = "hybrid", !.error = analysis.error,
                                    !.sections = analysis.sections,
                                    !.found = [ i \in 1..Len(analysis.sections) |->
                                                hybridFindSectionByHash(aFile, aThreshold,
                                                                        analysis.sections[i].hash) ] ]
  /\ apc' = "done"
  /\ UNCHANGED <<aFile, aThreshold>>
  /\ UNCHANGED <<pipelineVars, hashVars, reconVars, serverVars, concVars, procVars, searchVars>>

NextAnalyze ==
  \/ SplitFile
  \/ AnalyzeFile
  \/ AnalyzeAndFind

SpecAnalyze == InitAnalyze /\ [][NextAnalyze]_vars

(***************************************************************************)
(* The file server answering one request whose parameter, decoded, is any  *)
(* sequence of up to MaxParamLen symbols                                   *)
(***************************************************************************)
MaxParamLen == 4

ParamSymbols == { PARENT, SEP, "_out", "2", "A", "a", "doc", ".md" }

Params == UNION { [ 1..n -> ParamSymbols ] : n \in 1..MaxParamLen }

InitServer ==
  /\ PipelineIdle
  /\ HashIdle
  /\ ReconIdle
  /\ AnalyzeIdle
  /\ ConcIdle
  /\ ProcIdle
  /\ SearchIdle
  /\ sRoute \in {"files", "hash"}
  /\ sParam \in Params
  /\ spc = "request"
  /\ sOut = NoResponse

GetFile ==
  /\ spc = "request"
  /\ sRoute = "files"
  /\ sOut' = getFileByName(sParam)
  /\ spc' = "answered"
  /\ UNCHANGED <<sRoute, sParam>>
  /\ UNCHANGED <<pipelineVars, hashVars, reconVars, analyzeVars, concVars, procVars, searchVars>>

GetHash ==
  /\ spc = "request"
  /\ sRoute = "hash"
  /\ sOut' = getFileByHash(sParam)
  /\ spc' = "answered"
  /\ UNCHANGED <<sRoute, sParam>>
  /\ UNCHANGED <<pipelineVars, hashVars, reconVars, analyzeVars, concVars, procVars, searchVars>>

NextServer ==
  \/ GetFile
  \/ GetHash

SpecServer == InitServer /\ [][NextServer]_vars

(***************************************************************************)
(* Two FileWriter.writeSections calls on the sections of one document      *)
(* against one output directory, each advancing from one file-system call  *)
(* to the next: fs.access and fs.writeFile of writeSection, fs.readFile    *)
(* and fs.writeFile of addReferencesToFirstFile.  A call may also stop     *)
(* between its first pass and the reference append.                        *)
(***************************************************************************)
MaxConcLines == 3

ConcLineSet == { <<>>, <<"x">>, <<DIV>> }

ConcDocuments == { JoinNL(ls) : ls \in UNION { [ 1..n -> ConcLineSet ] : n \in 1..MaxConcLines } }

(* process returns before writeSections when there is no section *)
ConcSections == { splitContent(d) : d \in ConcDocuments } \ { <<>> }

InitConc ==
  /\ cSecs \in ConcSections
  /\ cSource \in BOOLEAN
  /\ cDir = EmptyDir
  /\ cRun = [ r \in {1, 2} |-> NoRun ]
  /\ cSeq = TRUE
  /\ PipelineIdle
  /\ HashIdle
  /\ ReconIdle
  /\ AnalyzeIdle
  /\ ServerIdle
  /\ ProcIdle
  /\ SearchIdle

Other(r) == 3 - r

(* the call is between its first and its last file-system call *)
Busy(r) == cRun[r].pc \notin {"idle", "done", "stopped"}

RunOpts(r) == [ overwrite |-> cRun[r].overwrite, addReferences |-> TRUE,
                sourceGiven |-> cSource, timestamp |-> cRun[r].timestamp ]

(* the number of fs.writeFile calls made so far *)
WriteCount == Len(cRun[1].wrote) + Len(cRun[2].wrote)

(* results.push(result) and the step of the for-of loop *)
Pushed(r, result) ==
  [ cRun[r] EXCEPT !.results = Append(@, result),
                   !.i = @ + 1,
                   !.pc = IF cRun[r].i = Len(cSecs) THEN "passed" ELSE "check" ]

StartRun(r, overwrite) ==
  /\ cRun[r].pc = "idle"
  /\ cRun' = [ cRun EXCEPT ![r] = [ NoRun EXCEPT !.pc = "check", !.overwrite = overwrite,
                                                 !.timestamp = Clock(r), !.i = 1,
                                                 !.otherAt = IF Busy(Other(r)) THEN "busy"
                                                              ELSE cRun[Other(r)].pc ] ]
  /\ cSeq' = (cSeq /\ ~Busy(Other(r)))
  /\ UNCHANGED <<cSecs, cSource, cDir>>
  /\ UNCHANGED <<pipelineVars, hashVars, reconVars, analyzeVars, serverVars, procVars, searchVars>>

(* writeSection up to fs.writeFile: the hash, the filename and, with       *)
(* overwrite disabled, fs.access                                           *)
CheckExisting(r) ==
  /\ cRun[r].pc = "check"
  /\ LET w == writeSection(cDir, cSecs[cRun[r].i], RunOpts(r))
     IN cRun' = [ cRun EXCEPT ![r] = IF w.result.success
                                     THEN [ cRun[r] EXCEPT !.pc = "write" ]
                                     ELSE Pushed(r, w.result) ]
  /\ UNCHANGED <<cSecs, cSource, cDir, cSeq>>
  /\ UNCHANGED <<pipelineVars, hashVars, reconVars, analyzeVars, serverVars, procVars, searchVars>>

(* writeSection from fs.writeFile on: the file is written whatever is      *)
(* there by now                                                            *)
WriteSectionFile(r) ==
  /\ cRun[r].pc = "write"
  /\ LET w == writeSection(cDir, cSecs[cRun[r].i], [ RunOpts(r) EXCEPT !.overwrite = TRUE ])
         done == Pushed(r, w.result)
     IN /\ cDir' = w.dir
        /\ cRun' = [ cRun EXCEPT ![r] =
                       [ done EXCEPT !.wrote = Append(@, [ filename |-> w.result.filename,
                                                           content |-> w.dir[w.result.filename],
                                                           order |-> WriteCount + 1 ]) ] ]
  /\ UNCHANGED <<cSecs, cSource, cSeq>>
  /\ UNCHANGED <<pipelineVars, hashVars, reconVars, analyzeVars, serverVars, procVars, searchVars>>

(* addReferencesToFirstFile up to fs.readFile *)
ReadAnchor(r) ==
  /\ cRun[r].pc = "passed"
  /\ LET firsts == SelectSeq(cRun[r].results, IsFirstFile)
         otherFiles == SelectSeq(cRun[r].results, IsOtherFile)
     IN cRun' = [ cRun EXCEPT ![r] =
                    IF firsts = <<>> \/ otherFiles = <<>>
                    THEN [ cRun[r] EXCEPT !.pc = "done" ]
                    ELSE [ cRun[r] EXCEPT !.pc = "append", !.read = cDir[firsts[1].filename] ] ]
  /\ UNCHANGED <<cSecs, cSource, cDir, cSeq>>
  /\ UNCHANGED <<pipelineVars, hashVars, reconVars, analyzeVars, serverVars, procVars, searchVars>>

(* addReferencesToFirstFile from fs.writeFile on: the content read, with   *)
(* the references, replaces the anchor                                     *)
AppendReferences(r) ==
  /\ cRun[r].pc = "append"
  /\ LET name == SelectSeq(cRun[r].results, IsFirstFile)[1].filename
         after == addReferencesToFirstFile(WriteFile(cDir, name, cRun[r].read), cRun[r].results)
     IN /\ cDir' = after
        /\ cRun' = [ cRun EXCEPT ![r] =
                       [ cRun[r] EXCEPT !.pc = "done",
                                        !.wrote = Append(@, [ filename |-> name,
                                                              content |-> after[name],
                                                              order |-> WriteCount + 1 ]) ] ]
  /\ UNCHANGED <<cSecs, cSource, cSeq>>
  /\ UNCHANGED <<pipelineVars, hashVars, reconVars, analyzeVars, serverVars, procVars, searchVars>>

(* the process ends after the first pass, before the reference append *)
StopBeforeAppend(r) ==
  /\ cRun[r].pc = "passed"
  /\ cRun' = [ cRun EXCEPT ![r] = [ cRun[r] EXCEPT !.pc = "stopped" ] ]
  /\ UNCHANGED <<cSecs, cSource, cDir, cSeq>>
  /\ UNCHANGED <<pipelineVars, hashVars, reconVars, analyzeVars, serverVars, procVars, searchVars>>

NextConc ==
  \/ \E r \in {1, 2}, overwrite \in BOOLEAN : StartRun(r, overwrite)
  \/ \E r \in {1, 2} : CheckExisting(r)
  \/ \E r \in {1, 2} : WriteSectionFile(r)
  \/ \E r \in {1, 2} : ReadAnchor(r)
  \/ \E r \in {1, 2} : AppendReferences(r)
  \/ \E r \in {1, 2} : StopBeforeAppend(r)

SpecConc == InitConc /\ [][NextConc]_vars

(***************************************************************************)
(* MultiSourceProcessor.process on an input file that may be missing or    *)
(* unreadable, with or without the clean option, against an output         *)
(* directory that may hold files and a subdirectory of an earlier run      *)
(***************************************************************************)
MaxProcLines == 2

(* an input path with no file behind it, and one that cannot be read *)
Missing == <<"ENOENT">>
Unreadable == <<"EACCES">>

(* an entry of the output directory that is a directory, not a file *)
SubDir == <<"<dir>">>

FileNotFound == "File not found"
PermissionDenied == "Permission denied reading file"

(* StreamingFileProcessor.validateInputFile: the error thrown, "" for true *)
validateInputFile(input) ==
  IF input = Missing THEN FileNotFound
  ELSE IF input = Unreadable THEN PermissionDenied
  ELSE ""

(* cleanOutputDirectory that removes nothing *)
cleanOutputDirectoryNothing(outputDir) == outputDir

(* FileWriter.cleanOutputDirectory: fs.unlink of every entry that is a     *)
(* file                                                                    *)
cleanOutputDirectory(outputDir) ==
  [ n \in { m \in DOMAIN outputDir : outputDir[m] = SubDir } |-> outputDir[n] ]

ProcInputs ==
  {Missing, Unreadable}
    \cup { JoinNL(ls) : ls \in UNION { [ 1..n -> LineSet ] : n \in 1..MaxProcLines } }

ProcDirs ==
  { EmptyDir,
    StaleDir,
    [ n \in {AnchorName, "#x" \o Ext, "sub"} |->
        IF n = AnchorName THEN <<"x", NL, NL, DIV, SP, "#x", NL>>
        ELSE IF n = "sub" THEN SubDir
        ELSE <<DIV, SP, "#x", SP, "T4", NL, "x">> ] }

InitProc ==
  /\ pInput \in ProcInputs
  /\ pClean \in BOOLEAN
  /\ pDir \in ProcDirs
  /\ ppc = "start"
  /\ pOut = [ NoOutcome EXCEPT !.before = pDir ]
  /\ PipelineIdle
  /\ HashIdle
  /\ ReconIdle
  /\ AnalyzeIdle
  /\ ServerIdle
  /\ ConcIdle
  /\ SearchIdle

(* process: if (this.options.clean) await cleanOutputDirectory() *)
CleanOutput ==
  /\ ppc = "start"
  /\ pDir' = IF pClean THEN cleanOutputDirectory(pDir) ELSE pDir
  /\ pOut' = [ pOut EXCEPT !.cleaned = pClean ]
  /\ ppc' = "validate"
  /\ UNCHANGED <<pInput, pClean>>
  /\ UNCHANGED <<pipelineVars, hashVars, reconVars, analyzeVars, serverVars, concVars, searchVars>>

(* process: validateInputFile; a throw ends the run in the catch *)
ValidateInput ==
  /\ ppc = "validate"
  /\ LET e == validateInputFile(pInput)
     IN /\ pOut' = [ pOut EXCEPT !.error = e ]
        /\ ppc' = IF e # "" THEN "failed" ELSE "read"
  /\ UNCHANGED <<pInput, pClean, pDir>>
  /\ UNCHANGED <<pipelineVars, hashVars, reconVars, analyzeVars, serverVars, concVars, searchVars>>

(* process from readAndSplit on: the sections are written unless there are *)
(* none                                                                    *)
SplitAndWrite(overwrite) ==
  /\ ppc = "read"
  /\ LET r == readAndSplit(pInput, DefaultThreshold)
         opts == [ overwrite |-> overwrite, addReferences |-> TRUE, sourceGiven |-> TRUE,
                   timestamp |-> Clock(1) ]
         w == writeSections(pDir, r.sections, opts)
     IN IF r.error # ""
        THEN /\ pOut' = [ pOut EXCEPT !.error = r.error ]
             /\ ppc' = "failed"
             /\ pDir' = pDir
        ELSE IF Len(r.sections) = 0
        THEN /\ ppc' = "empty"
             /\ UNCHANGED <<pOut, pDir>>
        ELSE /\ pDir' = w.dir
             /\ pOut' = [ pOut EXCEPT !.results = w.results ]
             /\ ppc' = "done"
  /\ UNCHANGED <<pInput, pClean>>
  /\ UNCHANGED <<pipelineVars, hashVars, reconVars, analyzeVars, serverVars, concVars, searchVars>>

NextProc ==
  \/ CleanOutput
  \/ ValidateInput
  \/ \E overwrite \in BOOLEAN : SplitAndWrite(overwrite)

SpecProc == InitProc /\ [][NextProc]_vars

(***************************************************************************)
(* MultiSourceReconstructor on an anchor file in one directory, with the   *)
(* inputDir option left at "_out" or set to a directory, the referenced    *)
(* files being in the anchor's directory, in another one, in both or in    *)
(* none                                                                    *)
(***************************************************************************)
MaxRefs == 2

SearchRefLines == { <<DIV, SP, "A">>, <<DIV, SP, "a", "A">> }

SearchTexts ==
  { JoinNL(<<<<"x">>, <<>>>> \o refs) :
      refs \in UNION { [ 1..n -> SearchRefLines ] : n \in 0..MaxRefs } }

DirNames == { "_out", "alt" }

(* the referenced files of a directory hold the name of the directory and  *)
(* their hash                                                              *)
SearchDirs(text) ==
  { [ d \in DirNames |->
        [ n \in names[d] \cup (IF d = main THEN {AnchorName} ELSE {}) |->
            IF n = AnchorName THEN text ELSE <<d, SP, n>> ] ] :
      names \in [ DirNames -> SUBSET RefNames ], main \in DirNames }

InitSearch ==
  /\ qText \in SearchTexts
  /\ qConfig \in [ inputDir : DirNames \cup {"gone"}, mainDir : DirNames ]
  /\ qDirs \in { ds \in SearchDirs(qText) : AnchorName \in DOMAIN ds[qConfig.mainDir] }
  /\ qpc = "start"
  /\ qOut = NoSearch
  /\ PipelineIdle
  /\ HashIdle
  /\ ReconIdle
  /\ AnalyzeIdle
  /\ ServerIdle
  /\ ConcIdle
  /\ ProcIdle

(* MultiSourceReconstructor.reconstruct with the analyze option: the       *)
(* analysis only                                                           *)
AnalyzeReferences ==
  /\ qpc = "start"
  /\ LET analysis == reconstructorAnalyzeFile(qDirs, qConfig.mainDir, AnchorName)
     IN qOut' = [ NoSearch EXCEPT !.kind = "analyze", !.found = analysis.found,
                                  !.missing = analysis.missing ]
  /\ qpc' = "done"
  /\ UNCHANGED <<qText, qConfig, qDirs>>
  /\ UNCHANGED <<pipelineVars, hashVars, reconVars, analyzeVars, serverVars, concVars, procVars>>

(* MultiSourceReconstructor.reconstruct: the analysis, then the            *)
(* reconstruction                                                          *)
ReconstructFromAnchor ==
  /\ qpc = "start"
  /\ LET analysis == reconstructorAnalyzeFile(qDirs, qConfig.mainDir, AnchorName)
         r == reconstructDocumentIn(qDirs, qConfig.inputDir, qConfig.mainDir, AnchorName)
     IN qOut' = [ NoSearch EXCEPT !.kind = "reconstruct", !.found = analysis.found,
                                  !.missing = analysis.missing, !.resolved = r.resolved,
                                  !.output = r.output, !.error = r.error ]
  /\ qpc' = "done"
  /\ UNCHANGED <<qText, qConfig, qDirs>>
  /\ UNCHANGED <<pipelineVars, hashVars, reconVars, analyzeVars, serverVars, concVars, procVars>>

NextSearch ==
  \/ AnalyzeReferences
  \/ ReconstructFromAnchor

SpecSearch == InitSearch /\ [][NextSearch]_vars

(***************************************************************************)
(* Properties                                                              *)
(***************************************************************************)
InMemory == Size(file) <= streamingThreshold

Contents(secs) == [ i \in 1..Len(secs) |-> secs[i].content ]

SplitDone == pc \in {"split", "written", "reconstructed"}

(* C2: for a non-empty text split by FileProcessor.splitContent, the       *)
(* contents of the sections joined in index order with one "\n" are the    *)
(* text itself.                                                            *)
C2_SplitJoinRoundTrip ==
  (SplitDone /\ InMemory /\ file # <<>>) => JoinNL(Contents(sections)) = file

C2_Witness ==
  /\ pc = "split"
  /\ InMemory
  /\ Len(sections) >= 3
  /\ sections[2].hasDivider
  /\ Len(SplitNL(sections[2].content)) >= 2

(* C9: a section that begins with a divider line and a section without    *)
(* one, with the same non-divider content, get the same section hash.      *)
C9_DividerExclusion ==
  hOut.kind = "sections" => hOut.a = hOut.b

(* C10: generateHash gives the LF, CRLF and CR writings of a text, with or *)
(* without whitespace around them, the same hash.                          *)
C10_LineEndingIndependent ==
  hOut.kind = "variants" => (hOut.a = hOut.b /\ hOut.a = hOut.c)

C10_Witness ==
  /\ hOut.kind = "variants"
  /\ \E i \in 2..(Len(hText) - 1) :
       hText[i] = NL /\ hText[i-1] \notin Whitespace /\ hText[i+1] \notin Whitespace
  /\ \E i \in 1..Len(hOut.y) : hOut.y[i] = CR
  /\ Len(hOut.x) > Len(hText) + 1
  /\ hOut.a = hOut.c

(* the text of a section with its own divider line written bare *)
BareDivider(sec) ==
  IF sec.hasDivider /\ sec.originalDividerLine # NoLine
  THEN ReplaceFirst(sec.content, sec.originalDividerLine, <<DIV>>)
  ELSE sec.content

Skipped(r) == ~r.success /\ r.reason = "file_exists"

(* a run into an empty directory, overwrite disabled, references enabled,  *)
(* source filename given                                                   *)
FreshRun(r) ==
  /\ r.before = EmptyDir
  /\ ~r.opts.overwrite
  /\ r.opts.addReferences
  /\ r.opts.sourceGiven

(* C1: splitContent, writeSections into an empty directory, then           *)
(* reconstructDocument on the anchor give the pre-divider content as base  *)
(* content and the K divider sections as the K resolved bodies, in order   *)
(* (compared up to the trim of the base content and the canonical form of  *)
(* the divider line), for a document with pre-divider content.             *)
C1_RoundTrip ==
  (pc = "reconstructed" /\ Len(log) = 1 /\ InMemory /\ FreshRun(log[1])
     /\ ~sections[1].hasDivider /\ sections[1].content # <<>>)
    => /\ recon.error = ""
       /\ recon.baseContent = Trim(sections[1].content)
       /\ recon.resolved = [ i \in 1..(Len(sections) - 1) |-> BareDivider(sections[i + 1]) ]

(* no two divider lines of the text without a non-divider line between them *)
DividersSeparated(text) ==
  LET lines == SplitNL(text)
  IN \A i \in 1..Len(lines) : \A j \in (i + 1)..Len(lines) :
       (dividerPattern(lines[i]) /\ dividerPattern(lines[j]))
         => \E k \in (i + 1)..(j - 1) : ~dividerPattern(lines[k])

Equivalent(a, b) ==
  /\ Len(a) = Len(b)
  /\ \A i \in 1..Len(a) :
       /\ a[i].content = b[i].content
       /\ a[i].hasDivider = b[i].hasDivider
       /\ a[i].index = b[i].index
       /\ a[i].originalDividerLine = b[i].originalDividerLine

(* C3: for a file whose dividers are separated by content, readAndSplit    *)
(* above the streaming threshold returns the sections the in-memory        *)
(* strategy returns: same number, content, hasDivider, index and           *)
(* originalDividerLine.                                                    *)
C3_StrategiesEquivalent ==
  (pc \in {"split", "empty", "failed"} /\ ~InMemory /\ DividersSeparated(file))
    => (pc # "failed" /\ Equivalent(sections, splitContent(file)))

(* C4: two runs in sequence from an empty directory with overwrite         *)
(* disabled: the second run skips every section (file_exists) and leaves   *)
(* the directory as the first run left it.                                 *)
C4_SecondRunAllSkipped ==
  (Len(log) >= 2 /\ log[1].before = EmptyDir /\ ~log[1].opts.overwrite /\ ~log[2].opts.overwrite)
    => /\ Len(log[2].results) = Len(sections)
       /\ \A i \in 1..Len(log[2].results) : Skipped(log[2].results[i])
       /\ log[2].after = log[1].after

(* C5: a run with overwrite disabled leaves every file that was in the     *)
(* directory before it unchanged, and reports skipped(file_exists) for     *)
(* every section whose target file was there.                              *)
C5_ExistingFilesUntouched ==
  \A r \in 1..Len(log) :
    ~log[r].opts.overwrite
      => /\ \A n \in DOMAIN log[r].before :
              n \in DOMAIN log[r].after /\ log[r].after[n] = log[r].before[n]
         /\ \A i \in 1..Len(log[r].results) :
              (log[r].results[i].reason # "write_error"
                 /\ log[r].results[i].filename \in DOMAIN log[r].before)
                => Skipped(log[r].results[i])

C5_Witness ==
  /\ Len(log) = 2
  /\ ~log[2].opts.overwrite
  /\ log[2].opts.addReferences
  /\ AnchorName \in DOMAIN log[2].before
  /\ Len(log[2].results) >= 3
  /\ \A i \in 1..Len(log[2].results) : Skipped(log[2].results[i])
  /\ log[1].opts.overwrite
  /\ log[1].before = StaleDir
  /\ log[1].after[AnchorName] # StaleDir[AnchorName]

(* the results of a run for the non-anchor sections it wrote, in order *)
WrittenOthers(r) == SelectSeq(r.results, IsOtherFile)

(* one line "---: <hash>" per result, joined *)
ReferenceBlock(written) == JoinNL([ i \in 1..Len(written) |-> <<DIV, SP, written[i].hash>> ])

(* text ends with block and a newline, one blank line after content that   *)
(* does not itself end in whitespace                                       *)
EndsWithBlock(text, block) ==
  LET tail == <<NL, NL>> \o block \o <<NL>>
      n == Len(text) - Len(tail)
  IN /\ n >= 0
     /\ SubSeq(text, n + 1, Len(text)) = tail
     /\ (n > 0 => text[n] \notin Whitespace)

(* the first section is the anchor section, with content, and the source   *)
(* name is given                                                           *)
HasAnchorSection(r) ==
  /\ r.opts.sourceGiven
  /\ Len(sections) >= 1
  /\ sections[1].index = 0
  /\ ~sections[1].hasDivider
  /\ sections[1].content # <<>>

(* the run wrote the anchor file *)
AnchorWritten(r) ==
  /\ Len(r.results) >= 1
  /\ r.results[1].success
  /\ r.results[1].filename = AnchorName

(* C6 as stated: after a run with references enabled the anchor file ends  *)
(* with one line "---: <hash>" per non-anchor section the run wrote, in    *)
(* write order, one blank line after the anchor content.                   *)
C6_ReferenceBlockAfterEveryRun ==
  \A r \in 1..Len(log) :
    (log[r].opts.addReferences /\ HasAnchorSection(log[r])
       /\ AnchorName \in DOMAIN log[r].after /\ WrittenOthers(log[r]) # <<>>)
      => EndsWithBlock(log[r].after[AnchorName], ReferenceBlock(WrittenOthers(log[r])))

(* C6 amended: after a run with references enabled that wrote the anchor   *)
(* file, the anchor file is the trimmed anchor content, one blank line,    *)
(* and one line "---: <hash>" per non-anchor section the run wrote, in     *)
(* write order; it is the anchor content as written when the run wrote no  *)
(* other section.                                                          *)
C6_ReferenceBlockWhenAnchorWritten ==
  \A r \in 1..Len(log) :
    (log[r].opts.addReferences /\ AnchorWritten(log[r]))
      => IF WrittenOthers(log[r]) # <<>>
         THEN /\ EndsWithBlock(log[r].after[AnchorName], ReferenceBlock(WrittenOthers(log[r])))
              /\ log[r].after[AnchorName] =
                   Trim(sections[1].content) \o <<NL, NL>>
                     \o ReferenceBlock(WrittenOthers(log[r])) \o <<NL>>
         ELSE log[r].after[AnchorName] = sections[1].content

C6_Witness ==
  /\ Len(log) >= 1
  /\ log[1].opts.addReferences
  /\ AnchorWritten(log[1])
  /\ Len(WrittenOthers(log[1])) >= 2
  /\ WrittenOthers(log[1])[1].hash # WrittenOthers(log[1])[2].hash

(* the text begins with content that is not a divider line *)
StartsWithContent(text) ==
  /\ text # <<>>
  /\ ~splitContent(text)[1].hasDivider
  /\ splitContent(text)[1].content # <<>>

(* C7: a split-and-write, with the source filename, of a document that     *)
(* begins with content produces exactly one anchor file, holding section   *)
(* 0, and writes every other section to <hash><extension>.                 *)
C7_ExactlyOneAnchor ==
  (Len(log) >= 1 /\ log[1].before = EmptyDir /\ log[1].opts.sourceGiven /\ StartsWithContent(file))
    => /\ AnchorName \in DOMAIN log[1].after
       /\ log[1].results[1].success
       /\ log[1].results[1].filename = AnchorName
       /\ log[1].results[1].index = 0
       /\ ~log[1].results[1].hasDivider
       /\ \A i \in 2..Len(log[1].results) :
            log[1].results[i].filename = log[1].results[i].hash \o Ext

(* the lines of a text after its first line *)
RestLines(text) == Tail(SplitNL(text))

(* what writeSection is to write for a section: the canonical divider     *)
(* line in place of the section's first line, or the content verbatim      *)
ExpectedFile(sec, hash, timestamp) ==
  IF sec.hasDivider
  THEN JoinNL(<<createDividerLine(hash, timestamp)>> \o RestLines(sec.content))
  ELSE sec.content

(* C8: a file written for a section with hasDivider = true begins with     *)
(* the canonical divider line "---: <HASH> <timestamp>" of that section    *)
(* and continues with the section's lines after its divider, unchanged; a  *)
(* section with hasDivider = false is written verbatim (a later section of *)
(* the run with the same file name may have replaced the file).            *)
C8_CanonicalDividerWritten ==
  \A r \in 1..Len(log) : \A i \in 1..Len(log[r].results) :
    log[r].results[i].success
      => LET f == log[r].written[log[r].results[i].filename]
         IN /\ sections[i].hasDivider
                 => SplitNL(f)[1] = createDividerLine(log[r].results[i].hash, log[r].opts.timestamp)
            /\ \E j \in 1..Len(sections) :
                 /\ log[r].results[j].success
                 /\ log[r].results[j].filename = log[r].results[i].filename
                 /\ f = ExpectedFile(sections[j], log[r].results[j].hash, log[r].opts.timestamp)

IsReferenceLine(line) == referenceMatch(line).ok

(* the lines of a text without the blank lines at its end *)
WithoutTrailingBlank(lines) ==
  LET keep == { i \in 1..Len(lines) : Trim(lines[i]) # <<>> }
  IN IF keep = {} THEN <<>>
     ELSE SubSeq(lines, 1, CHOOSE i \in keep : \A j \in keep : j <= i)

(* the index of the first line of the contiguous block of reference lines  *)
(* that ends the text; one past the last line when there is no such block  *)
TrailingBlockStart(lines) ==
  CHOOSE k \in 1..(Len(lines) + 1) :
    /\ \A i \in k..Len(lines) : IsReferenceLine(lines[i])
    /\ (k > 1 => ~IsReferenceLine(lines[k - 1]))

(* C11: extractReferences returns the uppercased hashes of the contiguous  *)
(* block of reference lines that ends the anchor text, in order, and as    *)
(* base content the text before that block, trimmed.                       *)
C11_ReferencesFromTrailingBlock ==
  rOut.kind = "extract"
    => LET lines == WithoutTrailingBlank(SplitNL(rText))
           k == TrailingBlockStart(lines)
       IN /\ [ i \in 1..Len(rOut.references) |-> rOut.references[i].hash ]
               = [ i \in 1..(Len(lines) - k + 1) |->
                     Cat(toUpperCase(referenceMatch(lines[k + i - 1]).hash)) ]
          /\ rOut.baseContent = Trim(JoinNL(SubSeq(lines, 1, k - 1)))

(* the file a reference resolves to is in the search directory *)
RefExists(ref) == (ref.hash \o Ext) \in DOMAIN rDir

(* C12: a reference whose file is absent does not fail reconstructDocument: *)
(* no error is raised and the output is the base content followed by the   *)
(* cleaned contents of exactly the references whose files exist, in        *)
(* reference order.                                                        *)
C12_MissingReferenceSkipped ==
  rOut.kind = "reconstruct"
    => LET existing == SelectSeq(rOut.references, RefExists)
           bodies == [ i \in 1..Len(existing) |->
                         cleanReferencedContent(rDir[existing[i].hash \o Ext]) ]
       IN /\ rOut.error = ""
          /\ rOut.resolved = bodies
          /\ rOut.output = JoinBlank(<<rOut.baseContent>> \o bodies)

C12_Witness ==
  /\ rOut.kind = "reconstruct"
  /\ Len(rOut.references) >= 2
  /\ ~RefExists(rOut.references[1])
  /\ RefExists(rOut.references[2])
  /\ Len(rOut.resolved) = 1
  /\ rOut.baseContent # <<>>

(* the base content and the resolved sections of a reconstruction *)
Parts(r) == <<r.baseContent>> \o r.resolved

EndsBlank(text) == text # <<>> /\ text[Len(text)] = NL

StartsBlank(text) == text # <<>> /\ text[1] = NL

(* C13: in the output of reconstructDocument on what writeSections wrote,  *)
(* the base content and the resolved sections follow one another with      *)
(* exactly one blank line between each two: the parts are joined by one    *)
(* blank line and no part brings a further blank line to the joint.        *)
C13_OneBlankLineBetween ==
  (pc = "reconstructed" /\ recon.error = "" /\ FreshRun(log[1]))
    => /\ recon.output = JoinBlank(Parts(recon))
       /\ \A i \in 1..(Len(Parts(recon)) - 1) :
            /\ ~EndsBlank(Parts(recon)[i])
            /\ ~StartsBlank(Parts(recon)[i + 1])

(* a line of the form "---: <hash> <timestamp>" *)
IsEnhancedDivider(line) ==
  /\ Len(line) >= 5
  /\ line[1] = DIV
  /\ line[Len(line)] \in Timestamps
  /\ \E a \in 2..(Len(line) - 3) : \E b \in (a + 1)..(Len(line) - 2) :
       /\ \A i \in 2..a : IsWs(line[i])
       /\ \A i \in (a + 1)..b : IsHex(line[i])
       /\ \A i \in (b + 1)..(Len(line) - 1) : IsWs(line[i])

RECURSIVE DividerNumbers(_, _)
DividerNumbers(lines, n) ==
  IF n > Len(lines) THEN <<>>
  ELSE IF dividerPattern(lines[n]) THEN <<n>> \o DividerNumbers(lines, n + 1)
  ELSE DividerNumbers(lines, n + 1)

(* C16: analyzeFile emits no section for a run of dividers with no content *)
(* line between them: every section covers at least one line and no line   *)
(* of it is a divider line; every divider line number is in dividerLines,  *)
(* and a file of divider lines only yields no section.                     *)
C16_NoDividerOnlySection ==
  (aOut.kind = "analyze" /\ aOut.error = "")
    => LET lines == ReadLines(aFile, <<>>)
       IN /\ \A i \in 1..Len(aOut.sections) :
               /\ 1 <= aOut.sections[i].startLine
               /\ aOut.sections[i].startLine <= aOut.sections[i].endLine
               /\ aOut.sections[i].endLine <= Len(lines)
               /\ \A n \in aOut.sections[i].startLine..aOut.sections[i].endLine :
                    ~dividerPattern(lines[n])
          /\ aOut.dividerLines = DividerNumbers(lines, 1)
          /\ (\A n \in 1..Len(lines) : dividerPattern(lines[n])) => aOut.sections = <<>>

C16_Witness ==
  /\ aOut.kind = "analyze"
  /\ aOut.error = ""
  /\ Len(aOut.sections) = 1
  /\ aOut.dividerLines = <<2, 3>>

(* some line of the file has more than maxLineLength characters *)
HasLongLine(text) ==
  \E n \in 1..Len(ReadLines(text, <<>>)) : Size(ReadLines(text, <<>>)[n]) > maxLineLength

(* C17: analyzeFile fails with the line-too-long error exactly when some   *)
(* line of the file has more than maxLineLength characters, and returns    *)
(* no metadata when it fails.                                              *)
C17_LineTooLongIff ==
  aOut.kind = "analyze"
    => /\ (aOut.error = LineTooLong) <=> HasLongLine(aFile)
       /\ aOut.error # ""
            => (aOut.sections = <<>> /\ aOut.dividerLines = <<>> /\ aOut.totalLines = 0)

(* C18: for a file at or below the streaming threshold the hybrid          *)
(* analyzeFile returns one entry per section with that section's hash,     *)
(* and findSectionByHash with the hash of an entry returns a section with  *)
(* that hash whose content is the text of a section with that hash.        *)
C18_FindSectionByHash ==
  (aOut.kind = "hybrid" /\ Size(aFile) <= aThreshold)
    => LET secs == splitContent(aFile)
       IN /\ aOut.error = ""
          /\ Len(aOut.sections) = Len(secs)
          /\ \A i \in 1..Len(aOut.sections) :
               /\ aOut.sections[i].hash \notin {HashError, NotAString}
               /\ aOut.found[i].error = ""
               /\ aOut.found[i].found
               /\ aOut.found[i].hash = aOut.sections[i].hash
               /\ \E j \in 1..Len(secs) :
                    /\ aOut.sections[j].hash = aOut.sections[i].hash
                    /\ aOut.found[i].content = secs[j].content

(* the path lies in the output root: its segments begin with the root's *)
InsideRoot(path) ==
  LET segs == PathSegments(path, <<>>)
      root == PathSegments(OUTPUT_DIR, <<>>)
  IN Len(segs) >= Len(root) /\ SubSeq(segs, 1, Len(root)) = root

(* C19: the file server serves no file whose path lies outside the output *)
(* root, whatever the filename or hash parameter of the request.           *)
C19_NoFileOutsideRoot ==
  (spc = "answered" /\ sOut.status = 200) => InsideRoot(sOut.served)

(* the hashes listed by the reference lines of a text *)
RefHashes(text) ==
  { Cat(referenceMatch(SplitNL(text)[i]).hash) :
      i \in { j \in 1..Len(SplitNL(text)) : IsReferenceLine(SplitNL(text)[j]) } }

(* how many reference lines of the text list the hash *)
RefCount(text, hash) ==
  Cardinality({ i \in 1..Len(SplitNL(text)) :
                  /\ IsReferenceLine(SplitNL(text)[i])
                  /\ Cat(referenceMatch(SplitNL(text)[i]).hash) = hash })

(* run r is a later run against a directory whose anchor file carries a    *)
(* reference block                                                         *)
RerunOnAnnotatedAnchor(r) ==
  /\ r >= 2
  /\ AnchorName \in DOMAIN log[r].before
  /\ RefHashes(log[r].before[AnchorName]) # {}

(* C20 as stated: a second sequential run against an anchor that carries a *)
(* reference block leaves the anchor with a hash listed more than once.    *)
C20_RerunDuplicatesReferences ==
  \A r \in 1..Len(log) :
    RerunOnAnnotatedAnchor(r)
      => \E h \in RefHashes(log[r].after[AnchorName]) : RefCount(log[r].after[AnchorName], h) > 1

(* C20 amended: a later sequential run does not add to the references of   *)
(* an annotated anchor: with overwrite disabled the anchor is left as it   *)
(* was; with overwrite enabled it is rewritten and lists each hash once    *)
(* per non-anchor section the run wrote.                                   *)
C20_RerunKeepsReferences ==
  \A r \in 1..Len(log) :
    RerunOnAnnotatedAnchor(r)
      => IF log[r].opts.overwrite
         THEN /\ AnchorWritten(log[r])
              /\ \A h \in RefHashes(log[r].after[AnchorName]) \cup RefHashes(log[r].before[AnchorName]) :
                   RefCount(log[r].after[AnchorName], h)
                     = Cardinality({ i \in 1..Len(WrittenOthers(log[r])) : WrittenOthers(log[r])[i].hash = h })
         ELSE log[r].after[AnchorName] = log[r].before[AnchorName]

C20_Witness ==
  /\ Len(log) = 2
  /\ RerunOnAnnotatedAnchor(2)
  /\ log[2].opts.overwrite
  /\ Cardinality(RefHashes(log[2].before[AnchorName])) >= 2
  /\ \A h \in RefHashes(log[2].after[AnchorName]) : RefCount(log[2].after[AnchorName], h) = 1

(***************************************************************************)
(* Concurrent writeSections calls                                          *)
(***************************************************************************)
(* call r reports success for the file *)
Succeeded(r, f) ==
  \E k \in 1..Len(cRun[r].results) : cRun[r].results[k].success /\ cRun[r].results[k].filename = f

(* every fs.writeFile made so far, of both calls *)
Writes ==
  { cRun[1].wrote[k] : k \in 1..Len(cRun[1].wrote) } \cup { cRun[2].wrote[k] : k \in 1..Len(cRun[2].wrote) }

(* the latest fs.writeFile of the file *)
LastWrite(f) ==
  CHOOSE w \in Writes : /\ w.filename = f
                        /\ \A v \in Writes : v.filename = f => v.order <= w.order

(* C21: with overwrite disabled in both calls, a file both calls report    *)
(* as written exists only when the calls overlapped (each found it absent  *)
(* before the other wrote it), and the file then holds what the later      *)
(* fs.writeFile wrote.                                                     *)
C21_BothRunsWriteSameFile ==
  (~cRun[1].overwrite /\ ~cRun[2].overwrite)
    => \A f \in DOMAIN cDir :
         (Succeeded(1, f) /\ Succeeded(2, f))
           => /\ ~cSeq
              /\ cDir[f] = LastWrite(f).content

C21_Witness ==
  /\ ~cRun[1].overwrite /\ ~cRun[2].overwrite
  /\ cRun[1].pc = "done" /\ cRun[2].pc = "done"
  /\ \E a \in 1..Len(cRun[1].wrote), b \in 1..Len(cRun[2].wrote) :
       /\ cRun[1].wrote[a].filename = cRun[2].wrote[b].filename
       /\ cRun[1].wrote[a].order < cRun[2].wrote[b].order
       /\ cRun[1].wrote[a].content # cRun[2].wrote[b].content
       /\ Succeeded(1, cRun[1].wrote[a].filename)
       /\ Succeeded(2, cRun[1].wrote[a].filename)
       /\ cDir[cRun[1].wrote[a].filename] = cRun[2].wrote[b].content

(* the references call r appends: one line per non-anchor section it wrote *)
BlockOf(r) == ReferenceBlock(SelectSeq(cRun[r].results, IsOtherFile))

(* call r has appended its references to the anchor *)
Appended(r) ==
  /\ cRun[r].pc = "done"
  /\ SelectSeq(cRun[r].results, IsFirstFile) # <<>>
  /\ SelectSeq(cRun[r].results, IsOtherFile) # <<>>

AnchorOf(r) == SelectSeq(cRun[r].results, IsFirstFile)[1].filename

(* the anchor call r read for its append already carried the references    *)
(* of the other call                                                       *)
ReadOtherBlock(r) ==
  /\ Appended(r)
  /\ Appended(Other(r))
  /\ EndsWithBlock(cRun[r].read, BlockOf(Other(r)))

(* text ends with the references of one call after the references of a    *)
(* call                                                                    *)
EndsWithTwoBlocks(text) ==
  \E r1 \in {1, 2}, r2 \in {1, 2} :
    /\ BlockOf(r1) # <<>>
    /\ BlockOf(r2) # <<>>
    /\ LET tail == BlockOf(r1) \o <<NL, NL>> \o BlockOf(r2) \o <<NL>>
       IN /\ Len(text) >= Len(tail)
          /\ SubSeq(text, Len(text) - Len(tail) + 1, Len(text)) = tail

(* C22: with overwrite enabled in both calls, a call whose append read an  *)
(* anchor already carrying the other call's references leaves the anchor   *)
(* with the reference block twice, and this happens only when the calls    *)
(* overlapped: in a sequential execution no file ever ends with two        *)
(* reference blocks.                                                       *)
C22_ConcurrentAppendDuplicates ==
  (cRun[1].overwrite /\ cRun[2].overwrite)
    => /\ \A r \in {1, 2} :
            ReadOtherBlock(r)
              => /\ ~cSeq
                 /\ cDir[AnchorOf(r)] = Trim(cRun[r].read) \o <<NL, NL>> \o BlockOf(r) \o <<NL>>
                 /\ EndsWithTwoBlocks(cDir[AnchorOf(r)])
       /\ cSeq => \A f \in DOMAIN cDir : ~EndsWithTwoBlocks(cDir[f])

C22_Witness ==
  /\ cRun[1].overwrite /\ cRun[2].overwrite
  /\ \E r \in {1, 2} :
       /\ ReadOtherBlock(r)
       /\ EndsWithTwoBlocks(cDir[AnchorOf(r)])

(* text ends with the reference lines and a newline *)
EndsWithReferences(text, block) ==
  /\ block # <<>>
  /\ Len(text) >= Len(block) + 1
  /\ SubSeq(text, Len(text) - Len(block), Len(text)) = block \o <<NL>>

(* call a wrote a file for every section and stopped before the append;    *)
(* call b began after that                                                 *)
StoppedBeforeAppend(a, b) ==
  /\ cRun[a].pc = "stopped"
  /\ cRun[a].otherAt = "idle"
  /\ \A k \in 1..Len(cRun[a].results) : cRun[a].results[k].success
  /\ cRun[b].pc = "idle" \/ cRun[b].otherAt = "stopped"

(* C23: after a call that wrote every section file and stopped before the  *)
(* reference append, no file ends with the references; a later call with   *)
(* overwrite disabled skips every section (file_exists), writes nothing    *)
(* and leaves the directory as it was; a later call with overwrite enabled *)
(* that writes the anchor and another section ends the anchor with its     *)
(* references.                                                             *)
C23_StoppedRunLeavesNoReferences ==
  \A a \in {1, 2} :
    LET b == Other(a)
    IN StoppedBeforeAppend(a, b)
         => /\ cRun[b].pc = "idle"
                 => \A f \in DOMAIN cDir : ~EndsWithReferences(cDir[f], BlockOf(a))
            /\ (cRun[b].pc = "done" /\ ~cRun[b].overwrite)
                 => /\ Len(cRun[b].results) = Len(cSecs)
                    /\ \A k \in 1..Len(cRun[b].results) :
                         ~cRun[b].results[k].success /\ cRun[b].results[k].reason = "file_exists"
                    /\ cRun[b].wrote = <<>>
                    /\ \A f \in DOMAIN cDir :
                         /\ cDir[f] = LastWrite(f).content
                         /\ ~EndsWithReferences(cDir[f], BlockOf(a))
            /\ (cRun[b].pc = "done" /\ cRun[b].overwrite
                  /\ SelectSeq(cRun[b].results, IsFirstFile) # <<>>
                  /\ SelectSeq(cRun[b].results, IsOtherFile) # <<>>)
                 => EndsWithReferences(cDir[AnchorOf(b)], BlockOf(b))

C23_Witness ==
  /\ StoppedBeforeAppend(1, 2)
  /\ SelectSeq(cRun[1].results, IsFirstFile) # <<>>
  /\ SelectSeq(cRun[1].results, IsOtherFile) # <<>>
  /\ cRun[2].pc = "done"
  /\ ~cRun[2].overwrite
  /\ Len(cRun[2].results) >= 2
  /\ ~EndsWithReferences(cDir[AnchorOf(1)], BlockOf(1))

(***************************************************************************)
(* Streaming analysis: re-reads and the hash index                         *)
(***************************************************************************)
RECURSIVE SumSeq(_)
SumSeq(ns) == IF ns = <<>> THEN 0 ELSE Head(ns) + SumSeq(Tail(ns))

(* C24: in one analyzeFile call the lines read by all per-section hash     *)
(* re-reads together are at most the lines of the file.                    *)
C24_RereadsWithinFile ==
  (aOut.kind = "analyze" /\ aOut.error = "")
    => SumSeq(aOut.reads) <= aOut.totalLines

(* the lookup of h answers with an emitted section of hash h, or with null *)
(* when no section has it                                                  *)
LookupAnswers(h) ==
  IF \E i \in 1..Len(aOut.sections) : aOut.sections[i].hash = h
  THEN /\ aOut.lookups[h].found
       /\ aOut.lookups[h].meta.hash = h
       /\ \E i \in 1..Len(aOut.sections) : aOut.sections[i] = aOut.lookups[h].meta
  ELSE /\ ~aOut.lookups[h].found
       /\ aOut.lookups[h].error = ""

(* C25: the hash index of an analysis has one entry per emitted section,   *)
(* and findSectionByHash answers with an emitted section of that hash, or  *)
(* with null when there is none.                                           *)
C25_HashIndexPerSection ==
  (aOut.kind = "analyze" /\ aOut.error = "")
    => /\ Cardinality(DOMAIN aOut.hashIndex) = Len(aOut.sections)
       /\ \A h \in DOMAIN aOut.lookups : LookupAnswers(h)

(***************************************************************************)
(* Line ranges of the sections                                             *)
(***************************************************************************)
(* C26: the sections of FileProcessor.splitContent are indexed 0, 1, 2,    *)
(* ... in order and their 1-based line ranges partition the lines of the   *)
(* text: the first begins at line 1, each next one begins on the line      *)
(* after the one before ends, the last ends on the last line, and each     *)
(* section's content has lineEnd - lineStart + 1 lines.                    *)
C26_LineRangesPartition ==
  (SplitDone /\ InMemory /\ file # <<>>)
    => /\ Len(sections) >= 1
       /\ sections[1].lineStart = 1
       /\ sections[Len(sections)].lineEnd = Len(SplitNL(file))
       /\ \A i \in 1..Len(sections) :
            /\ sections[i].index = i - 1
            /\ Len(SplitNL(sections[i].content)) = sections[i].lineEnd - sections[i].lineStart + 1
            /\ i > 1 => sections[i].lineStart = sections[i - 1].lineEnd + 1

C26_Witness ==
  /\ pc = "split"
  /\ InMemory
  /\ Len(sections) >= 3
  /\ sections[2].lineEnd > sections[2].lineStart
  /\ sections[3].lineStart = sections[2].lineEnd + 1
  /\ sections[3].lineEnd = Len(SplitNL(file))

(***************************************************************************)
(* Content addressing of the files written                                 *)
(***************************************************************************)
(* the text without its first line when that line is an annotated divider *)
WithoutLeadingDivider(text) ==
  LET ls == SplitNL(text)
  IN IF IsEnhancedDivider(ls[1]) THEN JoinNL(Tail(ls)) ELSE text

(* C27: after any sequence of writeSections calls, under every combination *)
(* of options, every hash-named file of the output directory is named by   *)
(* the hash of its own content without a leading annotated divider line.   *)
C27_HashNamedFilesMatchContent ==
  \A n \in DOMAIN dir :
    n # AnchorName => n = generateHash(WithoutLeadingDivider(dir[n])) \o Ext

(***************************************************************************)
(* process with the clean option and no input file                         *)
(***************************************************************************)
(* C28: with the clean option the output directory is cleaned before the   *)
(* input file is validated; when the input file is missing or unreadable   *)
(* the run ends in error, every file that was in the output directory is   *)
(* gone and no file was written.                                           *)
C28_CleanedBeforeValidation ==
  pClean
    => /\ ppc \in {"validate", "read", "failed", "empty", "done"} => pOut.cleaned
       /\ (ppc = "failed" /\ pInput \in {Missing, Unreadable})
            => /\ pOut.error # ""
               /\ pOut.results = <<>>
               /\ \A n \in DOMAIN pOut.before : pOut.before[n] # SubDir => n \notin DOMAIN pDir
               /\ DOMAIN pDir \subseteq DOMAIN pOut.before

C28_Witness ==
  /\ pClean
  /\ ppc = "failed"
  /\ pInput = Missing
  /\ Cardinality(DOMAIN pOut.before) = 3
  /\ DOMAIN pDir = {"sub"}

(***************************************************************************)
(* Sections that cannot be hashed                                          *)
(***************************************************************************)
(* C29: a section whose content is the empty string gets a write_error     *)
(* result and no file; writeSections still handles every other section     *)
(* and returns one result per section, in the order of the sections.       *)
C29_EmptySectionWriteError ==
  \A r \in 1..Len(log) :
    /\ Len(log[r].results) = Len(sections)
    /\ \A k \in 1..Len(sections) :
         IF sections[k].content = <<>>
         THEN /\ ~log[r].results[k].success
              /\ log[r].results[k].reason = "write_error"
              /\ log[r].results[k].index = sections[k].index
         ELSE /\ log[r].results[k].reason # "write_error"
              /\ log[r].results[k].hash = generateSectionHash(sections[k])
              /\ log[r].results[k].success => log[r].results[k].filename \in DOMAIN log[r].written
    /\ \A n \in DOMAIN log[r].written \ DOMAIN log[r].before :
         \E k \in 1..Len(sections) : log[r].results[k].success /\ log[r].results[k].filename = n

C29_Witness ==
  /\ Len(log) >= 1
  /\ Len(sections) >= 3
  /\ sections[1].content = <<>>
  /\ log[1].results[1].reason = "write_error"
  /\ log[1].results[2].success
  /\ log[1].results[3].success
  /\ Cardinality(DOMAIN log[1].written \ DOMAIN log[1].before) = 2

(***************************************************************************)
(* The search directory of analysis and reconstruction                     *)
(***************************************************************************)
(* C30: for every configuration of inputDir the reconstruction includes    *)
(* exactly the references the analysis counts as found, in order, each     *)
(* with the content of the file the analysis found.                        *)
C30_SameSearchDirectory ==
  qOut.kind = "reconstruct"
    => qOut.resolved =
         [ i \in 1..Len(qOut.found) |->
             cleanReferencedContent(qDirs[qConfig.mainDir][qOut.found[i].hash \o Ext]) ]

====
